---- MODULE Spec2Model ----
(***************************************************************************)
(* The per-room coordinator `Chat` of src/src/server/index.ts (the final   *)
(* revision, lines 262-1018): one Durable Object owning the room's         *)
(* connections, roster, message log, rate limiters and cleanup alarm.      *)
(*                                                                         *)
(* Strings the code manipulates (names, chat content, ids, storage keys)   *)
(* are sequences of one-character strings, so concatenation, prefix        *)
(* matching and escaping are computed.  Enumeration members (roles, frame  *)
(* types, error types, message types) are TLA+ strings named as in         *)
(* shared.ts.                                                              *)
(*                                                                         *)
(* A handler runs to completion as one step, except handleCloseRoom, which *)
(* suspends on its 1000 ms timer: the step before the timer and the step   *)
(* after it are separate actions and any other event may come between.     *)
(* Awaited storage calls do not let another event in (the Durable Object   *)
(* input gate), and the store applies puts and deletes in issue order.     *)
(* Every storage call succeeds, except where a specification lets it fail: *)
(* the deleteAlarm of cancelPendingCleanup, and the put or delete of the   *)
(* drawing-class commands.                                                 *)
(* WebSocket.send succeeds on a socket that                                *)
(* is open and throws on a socket the server has already closed with       *)
(* close(); a socket stays in `connections` until its close event has run  *)
(* onClose to the end.                                                     *)
(***************************************************************************)
EXTENDS Integers, Sequences, FiniteSets, TLC

----------------------------------------------------------------------------
(* Bounds of the model *)

MaxConn == 2
MaxVer == 2
MaxMsgs == 3
MaxTimers == 1
MaxChats == 2
MaxChatLog == 4
MaxRateLog == 13
MaxRateCalls == 12
MaxTicks == 3
TickMs == 2500
MaxDraws == 2
MaxDrawCalls == 4
MaxIdleTicks == 3
IdleTickMs == 90000
MaxEscapeLen == 2
MaxOverlap == 2
MaxBurstLog == 21

----------------------------------------------------------------------------
(* Program constants *)

LEGACY_COLLAB_PROTOCOL_VERSION == 1
EMPTY_ROOM_CLEANUP_DELAY_MS == 180000
ChatMaxRequests == 10
DrawMaxRequests == 100
LimiterWindowMs == 5000
MaxContentLength == 1000

\* null of a number field: protocol versions are > 0, timestamps are >= 0
NoVersion == 0
NoTime == -1
\* null of fileName; the empty string is never stored (`if (fileName)`)
NoFile == <<>>
\* no `exclude` argument of broadcast; connection handles are 1..MaxConn
NoConn == 0

HOST == "host"
EDITOR == "editor"
VIEWER == "viewer"

TEXT == "text"
SYSTEM == "system"

moveViewPrefix == <<"m", "o", "v", "e", "v", "i", "e", "w", "_">>
drawingPrefix == <<"d", "r", "a", "w", "i", "n", "g", "_">>
updateBackgroundKey ==
    <<"u", "p", "d", "a", "t", "e", "B", "a", "c", "k", "g", "r", "o", "u", "n", "d">>

joined_room == <<"X", "X", "X", "j", "o", "i", "n", "e", "d", "_", "r", "o", "o", "m">>
left_room == <<"X", "X", "X", "l", "e", "f", "t", "_", "r", "o", "o", "m">>
updated_name ==
    <<"X", "X", "X", "u", "p", "d", "a", "t", "e", "d", "_", "n", "a", "m", "e">>

----------------------------------------------------------------------------
(* Input domains *)

Conns == 1..MaxConn
UserIds == {"u1", "u2"}
Ann == <<"A", "n", "n">>
Bob == <<"B", "o", "b">>
Names == {Ann, Bob}
Roles == {HOST, EDITOR, VIEWER}
\* protocolVersion as declared by the client; 0 stands for absent or invalid
DeclaredVersions == 0..MaxVer
FileNames == {NoFile, <<"f">>}

VARIABLES
    isRoomClosed,            \* Chat.isRoomClosed
    fileName,                \* Chat.fileName
    roomMinProtocolVersion,  \* Chat.roomMinProtocolVersion
    users,                   \* Chat.users: userId -> UserSession
    messages,                \* Chat.messages
    connections,             \* Chat.connections: a Set, kept in insertion order
    connectionToUser,        \* Chat.connectionToUser: WebSocket -> userId
    messageLimiter,          \* Chat.messageLimiter.requestCounts
    drawingLimiter,          \* Chat.drawingLimiter.requestCounts
    pendingCleanupAt,        \* Chat.pendingCleanupAt
    storage,                 \* state.storage: key -> value
    storageAlarm,            \* state.storage's alarm
    now,                     \* Date.now()
    ticks,                   \* number of clock advances so far
    socket,                  \* each WebSocket handle: "free" (no socket, or one the
                             \* peer closed), "open", "closing" (closed by the
                             \* server, close event pending), "closed" (closed by
                             \* the server, close event delivered)
    closeTimers,             \* handleCloseRoom calls waiting on their timer
    staleTimers,             \* those of them whose timer was set before the last wipe
    sent,                    \* frames sent to each WebSocket by the last step
    ev,                      \* the event the last step handled
    notified,                \* sockets sent a closeRoom frame since attaching
    sinceClose,              \* "wiped": a host close has wiped the room and no session was
                             \* registered since; "joined": only joins registered since;
                             \* "open": otherwise
    chatCalls,               \* per userId: chat calls in the current 5000 ms window
    latest                   \* per move-view id: the last accepted command since the last wipe

roomVars == <<isRoomClosed, fileName, roomMinProtocolVersion, users, messages,
              connections, connectionToUser, pendingCleanupAt>>
limiterVars == <<messageLimiter, drawingLimiter>>
storeVars == <<storage, storageAlarm>>
envVars == <<now, ticks, socket, closeTimers, staleTimers>>
obsVars == <<sent, ev>>
histVars == <<notified, sinceClose, chatCalls, latest>>
vars == <<roomVars, limiterVars, storeVars, envVars, obsVars, histVars>>

----------------------------------------------------------------------------
(* Maps *)

EmptyMap == [k \in {} |-> 0]
MapSet(m, k, v) == [x \in DOMAIN m \cup {k} |-> IF x = k THEN v ELSE m[x]]
MapDelete(m, k) == [x \in DOMAIN m \ {k} |-> m[x]]

----------------------------------------------------------------------------
(* Frames *)

Frame(type, content) == [type |-> type, content |-> content]
ErrorFrame(errorType) == Frame("error", errorType)
NoneSent == [w \in Conns |-> <<>>]

\* sendError / webSocket.send: one frame to one socket
Send(out, ws, frame) == [out EXCEPT ![ws] = Append(@, frame)]

\* the members of a Set kept as a sequence
SetOf(seq) == {seq[i] : i \in DOMAIN seq}
Without(seq, x) == SelectSeq(seq, LAMBDA y : y # x)

\* ws.send(...) throws: the server has called close() on the socket
SendThrows(ws) == socket[ws] \in {"closing", "closed"}

\* broadcast's loop throws at the first socket, other than `exclude`, whose
\* send throws
BroadcastThrows(conns, exclude) ==
    \E i \in DOMAIN conns : conns[i] # exclude /\ SendThrows(conns[i])

RECURSIVE Reached(_, _)
\* the sockets broadcast's loop sends to before it ends or throws
Reached(conns, exclude) ==
    IF conns = <<>> THEN {}
    ELSE IF Head(conns) = exclude THEN Reached(Tail(conns), exclude)
    ELSE IF SendThrows(Head(conns)) THEN {}
    ELSE {Head(conns)} \cup Reached(Tail(conns), exclude)

\* a broadcast that sends to `exclude` as well
BroadcastToSenderToo(out, conns, frame, exclude) ==
    [w \in Conns |-> IF (w \in Reached(conns, exclude) \/ w = exclude) /\ socket[w] = "open"
                     THEN Append(out[w], frame) ELSE out[w]]

\* broadcast: the frame to every member of connections except `exclude`, in
\* insertion order, up to the first send that throws; a socket the peer has
\* closed takes the send and gets nothing
Broadcast(out, conns, frame, exclude) ==
    [w \in Conns |-> IF w \in Reached(conns, exclude) /\ socket[w] = "open"
                     THEN Append(out[w], frame) ELSE out[w]]

\* onMessage's catch: sendError(webSocket, INVALID_FORMAT) when the handler threw
Caught(out, ws, threw) ==
    IF threw THEN Send(out, ws, ErrorFrame("INVALID_FORMAT")) ELSE out

HasFrame(out, ws, type) == \E i \in 1..Len(out[ws]) : out[ws][i].type = type
OnlyError(out, ws, errorType) ==
    /\ Len(out[ws]) = 1
    /\ out[ws][1].type = "error"
    /\ out[ws][1].content = errorType

SystemMessage(content, at) ==
    [userId |-> "system", userName |-> <<"S", "y", "s", "t", "e", "m">>,
     content |-> content, timestamp |-> at, messageType |-> SYSTEM]

----------------------------------------------------------------------------
(* RateLimiter *)

NoCounts == EmptyMap

\* an isRateLimited that refuses one request later (`>` for `>=`)
isRateLimitedLate(requestCounts, key, t, maxRequests, windowMs) ==
    IF key \notin DOMAIN requestCounts
    THEN [limited |-> FALSE,
          counts |-> MapSet(requestCounts, key, [count |-> 1, timestamp |-> t])]
    ELSE IF t - requestCounts[key].timestamp > windowMs
    THEN [limited |-> FALSE,
          counts |-> MapSet(requestCounts, key, [count |-> 1, timestamp |-> t])]
    ELSE IF requestCounts[key].count > maxRequests
    THEN [limited |-> TRUE, counts |-> requestCounts]
    ELSE [limited |-> FALSE,
          counts |-> MapSet(requestCounts, key,
                            [count |-> requestCounts[key].count + 1,
                             timestamp |-> requestCounts[key].timestamp])]

\* an isRateLimited that opens a new window as soon as the clock has moved
isRateLimitedEarlyReset(requestCounts, key, t, maxRequests, windowMs) ==
    IF key \notin DOMAIN requestCounts
    THEN [limited |-> FALSE,
          counts |-> MapSet(requestCounts, key, [count |-> 1, timestamp |-> t])]
    ELSE IF t - requestCounts[key].timestamp > 0
    THEN [limited |-> FALSE,
          counts |-> MapSet(requestCounts, key, [count |-> 1, timestamp |-> t])]
    ELSE IF requestCounts[key].count >= maxRequests
    THEN [limited |-> TRUE, counts |-> requestCounts]
    ELSE [limited |-> FALSE,
          counts |-> MapSet(requestCounts, key,
                            [count |-> requestCounts[key].count + 1,
                             timestamp |-> requestCounts[key].timestamp])]

\* an isRateLimited whose refusal restarts the window
isRateLimitedSliding(requestCounts, key, t, maxRequests, windowMs) ==
    IF key \notin DOMAIN requestCounts
    THEN [limited |-> FALSE,
          counts |-> MapSet(requestCounts, key, [count |-> 1, timestamp |-> t])]
    ELSE IF t - requestCounts[key].timestamp > windowMs
    THEN [limited |-> FALSE,
          counts |-> MapSet(requestCounts, key, [count |-> 1, timestamp |-> t])]
    ELSE IF requestCounts[key].count >= maxRequests
    THEN [limited |-> TRUE,
          counts |-> MapSet(requestCounts, key,
                            [count |-> requestCounts[key].count, timestamp |-> t])]
    ELSE [limited |-> FALSE,
          counts |-> MapSet(requestCounts, key,
                            [count |-> requestCounts[key].count + 1,
                             timestamp |-> requestCounts[key].timestamp])]

\* isRateLimited(key) at time t: the value returned and requestCounts afterwards
isRateLimited(requestCounts, key, t, maxRequests, windowMs) ==
    IF key \notin DOMAIN requestCounts
    THEN [limited |-> FALSE,
          counts |-> MapSet(requestCounts, key, [count |-> 1, timestamp |-> t])]
    ELSE IF t - requestCounts[key].timestamp > windowMs
    THEN [limited |-> FALSE,
          counts |-> MapSet(requestCounts, key, [count |-> 1, timestamp |-> t])]
    ELSE IF requestCounts[key].count >= maxRequests
    THEN [limited |-> TRUE, counts |-> requestCounts]
    ELSE [limited |-> FALSE,
          counts |-> MapSet(requestCounts, key,
                            [count |-> requestCounts[key].count + 1,
                             timestamp |-> requestCounts[key].timestamp])]

\* this.messageLimiter.isRateLimited(userId)
ChatCheck(userId) ==
    isRateLimited(messageLimiter, userId, now, ChatMaxRequests, LimiterWindowMs)
\* this.drawingLimiter.isRateLimited(userId)
DrawCheck(userId) ==
    isRateLimited(drawingLimiter, userId, now, DrawMaxRequests, LimiterWindowMs)

----------------------------------------------------------------------------
(* Protocol negotiation *)

resolveClientProtocolVersion(declared) ==
    IF declared > 0 THEN declared ELSE LEGACY_COLLAB_PROTOCOL_VERSION

\* `this.roomMinProtocolVersion ?? LEGACY_COLLAB_PROTOCOL_VERSION`
RequiredMinVersion ==
    IF roomMinProtocolVersion = NoVersion
    THEN LEGACY_COLLAB_PROTOCOL_VERSION ELSE roomMinProtocolVersion

\* a gate that also refuses the room's own minimum version
JoinCompatibleAboveOnly(joinerVersion) == joinerVersion > RequiredMinVersion

\* validateJoinProtocolCompatibility's return value
JoinCompatible(joinerVersion) == ~(joinerVersion < RequiredMinVersion)

----------------------------------------------------------------------------
(* sanitizeContent *)

RECURSIVE ReplaceAll(_, _, _)
\* String.replace(/c/g, by)
ReplaceAll(s, c, by) ==
    IF s = <<>> THEN <<>>
    ELSE (IF Head(s) = c THEN by ELSE <<Head(s)>>) \o ReplaceAll(Tail(s), c, by)

sanitizeContent(content) ==
    LET s1 == ReplaceAll(content, "<", <<"&", "l", "t", ";">>)
        s2 == ReplaceAll(s1, ">", <<"&", "g", "t", ";">>)
        s3 == ReplaceAll(s2, "&", <<"&", "a", "m", "p", ";">>)
        s4 == ReplaceAll(s3, "\"", <<"&", "q", "u", "o", "t", ";">>)
    IN  ReplaceAll(s4, "'", <<"&", "#", "0", "3", "9", ";">>)

----------------------------------------------------------------------------
(* state.storage *)

\* `${prefix}${id}`
StorageKey(prefix, id) == prefix \o id

StartsWith(key, prefix) ==
    /\ Len(key) >= Len(prefix)
    /\ SubSeq(key, 1, Len(prefix)) = prefix

\* the characters of the model's keys in code-unit order
CodeUnits == <<"B", "_", "a", "b", "c", "d", "e", "g", "i", "k", "m", "n", "o",
               "p", "r", "t", "u", "v", "w">>
CodeOf(c) == CHOOSE i \in 1..Len(CodeUnits) : CodeUnits[i] = c

RECURSIVE KeyLess(_, _)
KeyLess(a, b) ==
    IF b = <<>> THEN FALSE
    ELSE IF a = <<>> THEN TRUE
    ELSE IF Head(a) = Head(b) THEN KeyLess(Tail(a), Tail(b))
    ELSE CodeOf(Head(a)) < CodeOf(Head(b))

RECURSIVE ValuesInKeyOrder(_, _)
ValuesInKeyOrder(store, keys) ==
    IF keys = {} THEN <<>>
    ELSE LET first == CHOOSE k \in keys : \A other \in keys \ {k} : KeyLess(k, other)
         IN  <<store[first]>> \o ValuesInKeyOrder(store, keys \ {first})

\* Array.from((await storage.list({prefix})).values())
StorageList(store, prefix) ==
    ValuesInKeyOrder(store, {k \in DOMAIN store : StartsWith(k, prefix)})

\* storage.delete({prefix})
StorageDeletePrefix(store, prefix) ==
    [k \in {x \in DOMAIN store : ~StartsWith(x, prefix)} |-> store[k]]

----------------------------------------------------------------------------
(* Further input domains *)

Ids == {<<"a">>, <<"b">>}
Models == {"m1", "m2"}
NoModel == "none"
DrawingActions == {"addStrokes", "moveStrokes", "removeStrokes", "clearStrokes"}

Event(op, ws) == [op |-> op, ws |-> ws]

Session(content, protocolVersion) ==
    [userId |-> content.userId, userName |-> content.userName,
     role |-> content.role, protocolVersion |-> protocolVersion]

\* `!data.content || !data.content.userId || !data.content.userName || !data.content.role`
MissingUserInfo(content) ==
    content.userId = "" \/ content.userName = <<>> \/ content.role = ""

NothingLatest == [id \in Ids |-> NoModel]

\* chatCalls after one more chat call of userId reached the limiter: the window
\* opened by the first call lasts LimiterWindowMs; `prev` is the number of calls
\* of the window before
ChatCallsAfter(userId) ==
    IF userId \notin DOMAIN chatCalls
    THEN MapSet(chatCalls, userId, [start |-> now, n |-> 1, prev |-> 0])
    ELSE IF now - chatCalls[userId].start > LimiterWindowMs
    THEN MapSet(chatCalls, userId, [start |-> now, n |-> 1, prev |-> chatCalls[userId].n])
    ELSE MapSet(chatCalls, userId, [chatCalls[userId] EXCEPT !.n = @ + 1])

----------------------------------------------------------------------------
Init ==
    /\ isRoomClosed = FALSE
    /\ fileName = NoFile
    /\ roomMinProtocolVersion = NoVersion
    /\ users = EmptyMap
    /\ messages = <<>>
    /\ connections = <<>>
    /\ connectionToUser = EmptyMap
    /\ messageLimiter = NoCounts
    /\ drawingLimiter = NoCounts
    /\ pendingCleanupAt = NoTime
    /\ storage = EmptyMap
    /\ storageAlarm = NoTime
    /\ now = 0
    /\ ticks = 0
    /\ socket = [w \in Conns |-> "free"]
    /\ closeTimers = 0
    /\ staleTimers = 0
    /\ sent = NoneSent
    /\ ev = Event("init", NoConn)
    /\ notified = {}
    /\ sinceClose = "open"
    /\ chatCalls = EmptyMap
    /\ latest = NothingLatest

----------------------------------------------------------------------------
(* Cleanup scheduling *)

\* cancelPendingCleanup: pendingCleanupAt becomes null; the store's alarm is
\* deleted when one was pending
AlarmAfterCancel == IF pendingCleanupAt = NoTime THEN storageAlarm ELSE NoTime

\* an onClose that schedules the cleanup without the `connections.size === 0` test
PendingAfterEveryClose(conns) ==
    IF pendingCleanupAt = NoTime
    THEN now + EMPTY_ROOM_CLEANUP_DELAY_MS ELSE pendingCleanupAt

\* scheduleEmptyRoomCleanup, called when `connections.size === 0`
PendingAfterSchedule(conns) ==
    IF conns = <<>> /\ pendingCleanupAt = NoTime
    THEN now + EMPTY_ROOM_CLEANUP_DELAY_MS ELSE pendingCleanupAt
AlarmAfterSchedule(conns) ==
    IF conns = <<>> /\ pendingCleanupAt = NoTime
    THEN now + EMPTY_ROOM_CLEANUP_DELAY_MS ELSE storageAlarm

\* a clearRoomData that forgets `this.messages = []`
clearRoomDataKeepsLog ==
    /\ pendingCleanupAt' = NoTime
    /\ connections' = <<>>
    /\ users' = EmptyMap
    /\ connectionToUser' = EmptyMap
    /\ messages' = messages
    /\ roomMinProtocolVersion' = NoVersion
    /\ fileName' = NoFile
    /\ isRoomClosed' = FALSE
    /\ storage' = EmptyMap
    /\ storageAlarm' = NoTime
    /\ latest' = NothingLatest

clearRoomData ==
    /\ pendingCleanupAt' = NoTime
    /\ connections' = <<>>
    /\ users' = EmptyMap
    /\ connectionToUser' = EmptyMap
    /\ messages' = <<>>
    /\ roomMinProtocolVersion' = NoVersion
    /\ fileName' = NoFile
    /\ isRoomClosed' = FALSE
    /\ storage' = EmptyMap
    /\ storageAlarm' = NoTime
    /\ latest' = NothingLatest

----------------------------------------------------------------------------
(* Lifecycle events *)

\* fetch -> handleWebSocket: a new WebSocket attaches
handleWebSocket(ws) ==
    /\ socket[ws] \in {"free", "closed"}
    /\ ws \notin SetOf(connections)
    /\ socket' = [socket EXCEPT ![ws] = "open"]
    /\ pendingCleanupAt' = NoTime
    /\ storageAlarm' = AlarmAfterCancel
    /\ connections' = Append(connections, ws)
    /\ notified' = notified \ {ws}
    /\ sent' = NoneSent
    /\ ev' = Event("connect", ws)
    /\ UNCHANGED <<isRoomClosed, fileName, roomMinProtocolVersion, users, messages,
                   connectionToUser, limiterVars, storage, now, ticks, closeTimers, staleTimers,
                   sinceClose, chatCalls, latest>>

\* handleWebSocket when the deleteAlarm of cancelPendingCleanup is rejected by the
\* store (its `.catch` logs 'failed_cancel_cleanup_alarm'): the wake stays
handleWebSocketCancelFails(ws) ==
    /\ socket[ws] \in {"free", "closed"}
    /\ ws \notin SetOf(connections)
    /\ pendingCleanupAt # NoTime
    /\ socket' = [socket EXCEPT ![ws] = "open"]
    /\ pendingCleanupAt' = NoTime
    /\ connections' = Append(connections, ws)
    /\ notified' = notified \ {ws}
    /\ sent' = NoneSent
    /\ ev' = Event("connect", ws)
    /\ UNCHANGED <<isRoomClosed, fileName, roomMinProtocolVersion, users, messages,
                   connectionToUser, limiterVars, storeVars, now, ticks, closeTimers, staleTimers,
                   sinceClose, chatCalls, latest>>

\* the socket's close event, after the peer closed or after the server's close()
onClose(ws) ==
    /\ socket[ws] \in {"open", "closing"}
    /\ LET hasUser == ws \in DOMAIN connectionToUser
                      /\ connectionToUser[ws] \in DOMAIN users
           userId == connectionToUser[ws]
           users1 == IF hasUser THEN MapDelete(users, userId) ELSE users
           left == SystemMessage(users[userId].userName \o left_room, now)
           out1 == Broadcast(NoneSent, connections, Frame("chat", left), NoConn)
           out2 == Broadcast(out1, connections, Frame("userList", users1), NoConn)
           conns1 == Without(connections, ws)
           \* sendSystemMessage's broadcast throws out of the listener
           threw == hasUser /\ BroadcastThrows(connections, NoConn)
       IN  /\ users' = users1
           /\ messages' = IF hasUser THEN Append(messages, left) ELSE messages
           /\ sent' = IF threw THEN out1 ELSE IF hasUser THEN out2 ELSE NoneSent
           /\ connectionToUser' = IF threw THEN connectionToUser
                                  ELSE MapDelete(connectionToUser, ws)
           /\ connections' = IF threw THEN connections ELSE conns1
           /\ pendingCleanupAt' = IF threw THEN pendingCleanupAt
                                  ELSE PendingAfterSchedule(conns1)
           /\ storageAlarm' = IF threw THEN storageAlarm ELSE AlarmAfterSchedule(conns1)
    /\ socket' = [socket EXCEPT ![ws] = IF socket[ws] = "closing" THEN "closed"
                                        ELSE "free"]
    /\ ev' = Event("close", ws)
    /\ UNCHANGED <<isRoomClosed, fileName, roomMinProtocolVersion, limiterVars, storage,
                   now, ticks, closeTimers, staleTimers, histVars>>

\* an alarm that wipes the room without looking at the connections
alarmAlwaysWipes ==
    /\ storageAlarm # NoTime
    /\ now >= storageAlarm
    /\ clearRoomData
    /\ sent' = NoneSent
    /\ ev' = Event("alarm", NoConn)
    /\ UNCHANGED <<limiterVars, envVars, notified, sinceClose, chatCalls>>

\* an alarm that clears the pending record and never wipes
alarmNeverWipes ==
    /\ storageAlarm # NoTime
    /\ now >= storageAlarm
    /\ pendingCleanupAt' = NoTime
    /\ storageAlarm' = NoTime
    /\ sent' = NoneSent
    /\ ev' = Event("alarm", NoConn)
    /\ UNCHANGED <<isRoomClosed, fileName, roomMinProtocolVersion, users, messages,
                   connections, connectionToUser, storage, latest, limiterVars, envVars,
                   notified, sinceClose, chatCalls>>

\* the store delivers the wake
alarm ==
    /\ storageAlarm # NoTime
    /\ now >= storageAlarm
    /\ IF connections # <<>>
       THEN /\ pendingCleanupAt' = NoTime
            /\ storageAlarm' = NoTime
            /\ UNCHANGED <<isRoomClosed, fileName, roomMinProtocolVersion, users, messages,
                           connections, connectionToUser, storage, latest>>
       ELSE clearRoomData
    /\ sent' = NoneSent
    /\ ev' = Event("alarm", NoConn)
    /\ UNCHANGED <<limiterVars, envVars, notified, sinceClose, chatCalls>>

\* time passes
Tick(delta) ==
    /\ now' = now + delta
    /\ ticks' = ticks + 1
    /\ sent' = NoneSent
    /\ ev' = Event("tick", NoConn)
    /\ UNCHANGED <<roomVars, limiterVars, storeVars, socket, closeTimers, staleTimers, histVars>>

----------------------------------------------------------------------------
(* Session commands *)

\* loginUserSession with userId and userName present (its callers checked them)
UsersAfterLogin(content, protocolVersion) ==
    MapSet(users, content.userId, Session(content, protocolVersion))
ConnectionToUserAfterLogin(ws, content) ==
    MapSet(connectionToUser, ws, content.userId)

\* closed flag after handleCreate's unconditional `this.isRoomClosed = false`
ClosedAfterCreate == FALSE

JoinedMessage(content) == SystemMessage(content.userName \o joined_room, now)

\* sendSystemMessage(...) then broadcastUserList(), called from a handler that
\* onMessage awaits: when the first broadcast throws, the second is not
\* reached and onMessage's catch answers `ws`
Announce(out, ws, message, users1) ==
    LET out1 == Broadcast(out, connections, Frame("chat", message), NoConn)
    IN  IF BroadcastThrows(connections, NoConn)
        THEN Caught(out1, ws, TRUE)
        ELSE Broadcast(out1, connections, Frame("userList", users1), NoConn)

AnnounceJoin(out, ws, content, users1) ==
    Announce(out, ws, JoinedMessage(content), users1)

handleCreate(ws, content) ==
    /\ socket[ws] = "open"
    /\ ev' = Event("create", ws)
    /\ IF MissingUserInfo(content)
       THEN /\ sent' = Send(NoneSent, ws, ErrorFrame("MISSING_USER_INFO"))
            /\ UNCHANGED <<roomVars, storeVars, sinceClose, latest>>
       ELSE IF content.role # HOST
       THEN /\ pendingCleanupAt' = NoTime
            /\ storageAlarm' = AlarmAfterCancel
            /\ isRoomClosed' = ClosedAfterCreate
            /\ sent' = Send(NoneSent, ws, ErrorFrame("ROOM_IS_CLOSED"))
            /\ UNCHANGED <<fileName, roomMinProtocolVersion, users, messages, connections,
                           connectionToUser, storage, sinceClose, latest>>
       ELSE LET protocolVersion == resolveClientProtocolVersion(content.protocolVersion)
                hasActiveUsers == DOMAIN users # {}
                users1 == UsersAfterLogin(content, protocolVersion)
            IN  /\ pendingCleanupAt' = NoTime
                /\ isRoomClosed' = ClosedAfterCreate
                /\ roomMinProtocolVersion' = protocolVersion
                /\ storage' = IF hasActiveUsers THEN storage ELSE EmptyMap
                /\ storageAlarm' = IF hasActiveUsers THEN AlarmAfterCancel ELSE NoTime
                /\ latest' = IF hasActiveUsers THEN latest ELSE NothingLatest
                /\ users' = users1
                /\ connectionToUser' = ConnectionToUserAfterLogin(ws, content)
                /\ fileName' = IF content.fileName # NoFile THEN content.fileName
                               ELSE fileName
                /\ messages' = Append(messages, JoinedMessage(content))
                /\ sent' = AnnounceJoin(NoneSent, ws, content, users1)
                /\ sinceClose' = "open"
                /\ UNCHANGED connections
    /\ UNCHANGED <<limiterVars, envVars, notified, chatCalls>>

\* the initSetup content of handleJoin; bgModel is an optional property: <<>> when
\* the store holds no background, else the one stored value
InitData(users1) ==
    [messages |-> messages,
     users |-> users1,
     fileName |-> fileName,
     roomMinProtocolVersion |-> RequiredMinVersion,
     moveModels |-> StorageList(storage, moveViewPrefix),
     bgModel |-> IF updateBackgroundKey \in DOMAIN storage
                 THEN <<storage[updateBackgroundKey]>> ELSE <<>>,
     drawingModels |-> StorageList(storage, drawingPrefix)]

\* a handleJoin that never looks at the closed flag
JoinNeverRefusedAsClosed == FALSE

\* `if (this.isRoomClosed)` at the head of handleJoin
JoinRefusedAsClosed == isRoomClosed

\* a handleJoin that lets anyone into a room without users
JoinNeverRefusedAsAbsent(content) == FALSE

\* `!roomExists && role !== UserRole.HOST` of handleJoin
JoinRefusedAsAbsent(content) == DOMAIN users = {} /\ content.role # HOST

handleJoin(ws, content) ==
    /\ socket[ws] = "open"
    /\ ev' = Event("join", ws)
    /\ IF JoinRefusedAsClosed
       THEN /\ sent' = Send(NoneSent, ws, ErrorFrame("ROOM_IS_CLOSED"))
            /\ socket' = [socket EXCEPT ![ws] = "closing"]
            /\ UNCHANGED <<users, connectionToUser, messages, sinceClose>>
       ELSE IF MissingUserInfo(content)
       THEN /\ sent' = Send(NoneSent, ws, ErrorFrame("MISSING_USER_INFO"))
            /\ UNCHANGED <<socket, users, connectionToUser, messages, sinceClose>>
       ELSE IF JoinRefusedAsAbsent(content)
       THEN /\ sent' = Send(NoneSent, ws, ErrorFrame("ROOM_IS_CLOSED"))
            /\ UNCHANGED <<socket, users, connectionToUser, messages, sinceClose>>
       ELSE IF ~JoinCompatible(resolveClientProtocolVersion(content.protocolVersion))
       THEN /\ sent' = Send(NoneSent, ws, ErrorFrame("UPGRADE_REQUIRED"))
            /\ socket' = [socket EXCEPT ![ws] = "closing"]
            /\ UNCHANGED <<users, connectionToUser, messages, sinceClose>>
       ELSE LET protocolVersion == resolveClientProtocolVersion(content.protocolVersion)
                users1 == UsersAfterLogin(content, protocolVersion)
                out1 == Send(NoneSent, ws, Frame("initSetup", InitData(users1)))
            IN  /\ users' = users1
                /\ connectionToUser' = ConnectionToUserAfterLogin(ws, content)
                /\ messages' = Append(messages, JoinedMessage(content))
                /\ sent' = AnnounceJoin(out1, ws, content, users1)
                /\ sinceClose' = IF sinceClose = "wiped" THEN "joined" ELSE sinceClose
                /\ UNCHANGED socket
    /\ UNCHANGED <<isRoomClosed, fileName, roomMinProtocolVersion, connections,
                   pendingCleanupAt, limiterVars, storeVars, now, ticks, closeTimers, staleTimers,
                   notified, chatCalls, latest>>

handleUserUpdate(ws, hasContent, userName) ==
    /\ socket[ws] = "open"
    /\ ev' = Event("userUpdate", ws)
    /\ IF ~hasContent
       THEN \* destructuring `data.content` throws; onMessage's catch replies
            /\ sent' = Send(NoneSent, ws, ErrorFrame("INVALID_FORMAT"))
            /\ UNCHANGED <<users, messages>>
       ELSE IF ws \notin DOMAIN connectionToUser
       THEN /\ sent' = Send(NoneSent, ws, ErrorFrame("USER_NOT_FOUND"))
            /\ UNCHANGED <<users, messages>>
       ELSE IF connectionToUser[ws] \notin DOMAIN users
       THEN /\ sent' = Send(NoneSent, ws, ErrorFrame("SESSION_NOT_FOUND"))
            /\ UNCHANGED <<users, messages>>
       ELSE LET userId == connectionToUser[ws]
                users1 == [users EXCEPT ![userId].userName = userName]
                renamed == SystemMessage(userName \o updated_name, now)
            IN  /\ users' = users1
                /\ messages' = Append(messages, renamed)
                /\ sent' = Announce(NoneSent, ws, renamed, users1)
    /\ UNCHANGED <<isRoomClosed, fileName, roomMinProtocolVersion, connections,
                   connectionToUser, pendingCleanupAt, limiterVars, storeVars, envVars,
                   histVars>>

\* handleChat calls broadcast(payload) without an `exclude`
ChatExclude(ws) == NoConn

TextMessage(user, content) ==
    [userId |-> user.userId, userName |-> user.userName, content |-> content,
     timestamp |-> now, messageType |-> TEXT]

handleChat(ws, content) ==
    /\ socket[ws] = "open"
    /\ ev' = Event("chat", ws)
    /\ IF ws \notin DOMAIN connectionToUser
       THEN /\ sent' = Send(NoneSent, ws, ErrorFrame("USER_NOT_JOINED"))
            /\ UNCHANGED <<messages, messageLimiter, chatCalls>>
       ELSE LET userId == connectionToUser[ws]
            IN  /\ messageLimiter' = ChatCheck(userId).counts
                /\ chatCalls' = ChatCallsAfter(userId)
                /\ IF ChatCheck(userId).limited
                   THEN /\ sent' = Send(NoneSent, ws, ErrorFrame("RATE_LIMITED"))
                        /\ UNCHANGED messages
                   ELSE IF userId \notin DOMAIN users
                   THEN /\ sent' = NoneSent
                        /\ UNCHANGED messages
                   ELSE IF content = <<>>
                   THEN /\ sent' = Send(NoneSent, ws, ErrorFrame("INVALID_FORMAT"))
                        /\ UNCHANGED messages
                   ELSE IF Len(content) > MaxContentLength
                   THEN /\ sent' = Send(NoneSent, ws, ErrorFrame("MESSAGE_TOO_LONG"))
                        /\ UNCHANGED messages
                   ELSE LET message == TextMessage(users[userId], sanitizeContent(content))
                        IN  /\ messages' = Append(messages, message)
                            /\ sent' = Caught(Broadcast(NoneSent, connections,
                                                        Frame("chat", message),
                                                        ChatExclude(ws)),
                                              ws, BroadcastThrows(connections,
                                                                  ChatExclude(ws)))
    /\ UNCHANGED <<isRoomClosed, fileName, roomMinProtocolVersion, users, connections,
                   connectionToUser, pendingCleanupAt, drawingLimiter, storeVars, envVars,
                   notified, sinceClose, latest>>

handleClear(ws) ==
    /\ socket[ws] = "open"
    /\ ev' = Event("clear", ws)
    /\ sent' = Caught(Broadcast(NoneSent, connections, Frame("clear", <<>>), NoConn),
                      ws, BroadcastThrows(connections, NoConn))
    /\ UNCHANGED <<roomVars, limiterVars, storeVars, envVars, histVars>>

----------------------------------------------------------------------------
(* Drawing-class commands.  `content` is the frame's content when hasContent. *)

Metadata(id, model) == [id |-> id, model |-> model, timestamp |-> now]

\* a put that keeps the record a key already has (first writer wins)
StorageKeepsFirstMoveView(id, model) ==
    IF StorageKey(moveViewPrefix, id) \in DOMAIN storage THEN storage
    ELSE MapSet(storage, StorageKey(moveViewPrefix, id), Metadata(id, model))

\* the store after handleUpdateMoveView's put
StorageAfterUpdateMoveView(id, model) ==
    MapSet(storage, StorageKey(moveViewPrefix, id), Metadata(id, model))

\* a delete that removes every move-view record
StorageDeletesEveryMoveView(id) == StorageDeletePrefix(storage, moveViewPrefix)

\* the store after handleDeleteMoveView's delete
StorageAfterDeleteMoveView(id) ==
    MapDelete(storage, StorageKey(moveViewPrefix, id))

\* a switch whose clearStrokes deletes every record of the store
StorageClearsEverything(id, action, model) ==
    IF action = "clearStrokes" THEN EmptyMap
    ELSE MapSet(storage, StorageKey(drawingPrefix, id), Metadata(id, model))

\* the store after handleDrawingUpdate's switch
StorageAfterDrawingUpdate(id, action, model) ==
    IF action = "clearStrokes" THEN StorageDeletePrefix(storage, drawingPrefix)
    ELSE MapSet(storage, StorageKey(drawingPrefix, id), Metadata(id, model))

handleUpdateBackground(ws, hasContent, model, broadcast) ==
    /\ socket[ws] = "open"
    /\ ev' = Event("updateBackground", ws)
    /\ IF ws \notin DOMAIN connectionToUser
       THEN /\ sent' = NoneSent
            /\ UNCHANGED <<drawingLimiter, storage>>
       ELSE LET userId == connectionToUser[ws]
                content == [model |-> model]
            IN  /\ drawingLimiter' = DrawCheck(userId).counts
                /\ IF DrawCheck(userId).limited
                   THEN /\ sent' = Send(NoneSent, ws, ErrorFrame("RATE_LIMITED"))
                        /\ UNCHANGED storage
                   ELSE IF ~hasContent
                   THEN /\ sent' = NoneSent
                        /\ UNCHANGED storage
                   ELSE /\ storage' = MapSet(storage, updateBackgroundKey, content)
                        /\ sent' = IF broadcast
                                   THEN Caught(Broadcast(NoneSent, connections,
                                                         Frame("updateBackground",
                                                               content), ws),
                                               ws, BroadcastThrows(connections, ws))
                                   ELSE NoneSent
    /\ UNCHANGED <<roomVars, messageLimiter, storageAlarm, envVars, histVars>>

handleUpdateMoveView(ws, hasContent, id, model, broadcast) ==
    /\ socket[ws] = "open"
    /\ ev' = Event("updateMoveView", ws)
    /\ IF ws \notin DOMAIN connectionToUser
       THEN /\ sent' = NoneSent
            /\ UNCHANGED <<drawingLimiter, storage, latest>>
       ELSE LET userId == connectionToUser[ws]
                content == [id |-> id, model |-> model]
            IN  /\ drawingLimiter' = DrawCheck(userId).counts
                /\ IF DrawCheck(userId).limited
                   THEN /\ sent' = Send(NoneSent, ws, ErrorFrame("RATE_LIMITED"))
                        /\ UNCHANGED <<storage, latest>>
                   ELSE IF ~hasContent
                   THEN /\ sent' = NoneSent
                        /\ UNCHANGED <<storage, latest>>
                   ELSE /\ storage' = StorageAfterUpdateMoveView(id, model)
                        /\ latest' = [latest EXCEPT ![id] = model]
                        /\ sent' = IF broadcast
                                   THEN Broadcast(NoneSent, connections,
                                                  Frame("updateMoveView", content), ws)
                                   ELSE NoneSent
    /\ UNCHANGED <<roomVars, messageLimiter, storageAlarm, envVars, notified,
                   sinceClose, chatCalls>>

\* a handleDeleteMoveView that forwards only when the broadcast flag is set
handleDeleteMoveViewGated(ws, hasContent, id, broadcast) ==
    /\ socket[ws] = "open"
    /\ ev' = Event("deleteMoveView", ws)
    /\ IF ws \notin DOMAIN connectionToUser
       THEN /\ sent' = NoneSent
            /\ UNCHANGED <<drawingLimiter, storage, latest>>
       ELSE LET userId == connectionToUser[ws]
            IN  /\ drawingLimiter' = DrawCheck(userId).counts
                /\ IF DrawCheck(userId).limited
                   THEN /\ sent' = Send(NoneSent, ws, ErrorFrame("RATE_LIMITED"))
                        /\ UNCHANGED <<storage, latest>>
                   ELSE IF ~hasContent
                   THEN /\ sent' = NoneSent
                        /\ UNCHANGED <<storage, latest>>
                   ELSE /\ storage' = StorageAfterDeleteMoveView(id)
                        /\ latest' = [latest EXCEPT ![id] = NoModel]
                        /\ sent' = IF broadcast
                                   THEN Broadcast(NoneSent, connections,
                                                  Frame("deleteMoveView", [id |-> id]),
                                                  ws)
                                   ELSE NoneSent
    /\ UNCHANGED <<roomVars, messageLimiter, storageAlarm, envVars, notified,
                   sinceClose, chatCalls>>

\* `broadcast` is the frame's flag, which the handler does not read
handleDeleteMoveView(ws, hasContent, id, broadcast) ==
    /\ socket[ws] = "open"
    /\ ev' = Event("deleteMoveView", ws)
    /\ IF ws \notin DOMAIN connectionToUser
       THEN /\ sent' = NoneSent
            /\ UNCHANGED <<drawingLimiter, storage, latest>>
       ELSE LET userId == connectionToUser[ws]
            IN  /\ drawingLimiter' = DrawCheck(userId).counts
                /\ IF DrawCheck(userId).limited
                   THEN /\ sent' = Send(NoneSent, ws, ErrorFrame("RATE_LIMITED"))
                        /\ UNCHANGED <<storage, latest>>
                   ELSE IF ~hasContent
                   THEN /\ sent' = NoneSent
                        /\ UNCHANGED <<storage, latest>>
                   ELSE /\ storage' = StorageAfterDeleteMoveView(id)
                        /\ latest' = [latest EXCEPT ![id] = NoModel]
                        /\ sent' = Broadcast(NoneSent, connections,
                                             Frame("deleteMoveView", [id |-> id]), ws)
    /\ UNCHANGED <<roomVars, messageLimiter, storageAlarm, envVars, notified,
                   sinceClose, chatCalls>>

handleDrawingUpdate(ws, hasContent, id, action, model, broadcast) ==
    /\ socket[ws] = "open"
    /\ ev' = Event("drawingUpdate", ws)
    /\ IF ~hasContent \/ ws \notin DOMAIN connectionToUser
       THEN /\ sent' = NoneSent
            /\ UNCHANGED <<drawingLimiter, storage>>
       ELSE LET userId == connectionToUser[ws]
                content == [id |-> id, action |-> action, model |-> model]
            IN  /\ drawingLimiter' = DrawCheck(userId).counts
                /\ IF DrawCheck(userId).limited
                   THEN /\ sent' = Send(NoneSent, ws, ErrorFrame("RATE_LIMITED"))
                        /\ UNCHANGED storage
                   ELSE IF action \notin DrawingActions
                   THEN /\ sent' = Send(NoneSent, ws, ErrorFrame("DRAWING_UPDATE_FAILED"))
                        /\ UNCHANGED storage
                   ELSE /\ storage' = StorageAfterDrawingUpdate(id, action, model)
                        /\ sent' = IF broadcast
                                   THEN LET out1 == Broadcast(NoneSent, connections,
                                                              Frame("drawingUpdate",
                                                                    content), ws)
                                        IN  IF BroadcastThrows(connections, ws)
                                            THEN Send(out1, ws,
                                                      ErrorFrame("DRAWING_UPDATE_FAILED"))
                                            ELSE out1
                                   ELSE NoneSent
    /\ UNCHANGED <<roomVars, messageLimiter, storageAlarm, envVars, histVars>>

\* the handler of a drawing-class command of `type` when the promise of its
\* storage put or delete rejects.  The frame has a content, comes from a
\* registered connection, passes the rate limit and (drawingUpdate) names a
\* known action, so the handler reaches its storage call.  handleUpdateBackground
\* does not await the put and goes on to its broadcast; handleUpdateMoveView and
\* handleDeleteMoveView await it and end there, and onMessage, which does not
\* await them, sends nothing; handleDrawingUpdate's catch sends
\* DRAWING_UPDATE_FAILED.
storageWriteFails(ws, type, id, action, model, broadcast) ==
    /\ socket[ws] = "open"
    /\ ws \in DOMAIN connectionToUser
    /\ ~DrawCheck(connectionToUser[ws]).limited
    /\ type = "drawingUpdate" => action \in DrawingActions
    /\ ev' = Event(type, ws)
    /\ drawingLimiter' = DrawCheck(connectionToUser[ws]).counts
    /\ sent' = IF type = "updateBackground"
               THEN IF broadcast
                    THEN Caught(Broadcast(NoneSent, connections,
                                          Frame("updateBackground", [model |-> model]),
                                          ws),
                                ws, BroadcastThrows(connections, ws))
                    ELSE NoneSent
               ELSE IF type = "drawingUpdate"
               THEN Send(NoneSent, ws, ErrorFrame("DRAWING_UPDATE_FAILED"))
               ELSE NoneSent
    /\ UNCHANGED <<roomVars, messageLimiter, storeVars, envVars, histVars>>

----------------------------------------------------------------------------
(* closeRoom *)

\* a role test that lets every registered user close the room
AnyoneMayCloseRoom(user) == TRUE

\* `user.role !== UserRole.HOST` of handleCloseRoom, negated
MayCloseRoom(user) == user.role = HOST

\* handleCloseRoom up to `await new Promise(resolve => setTimeout(resolve, 1000))`
handleCloseRoom(ws) ==
    /\ socket[ws] = "open"
    /\ ev' = Event("closeRoom", ws)
    /\ IF ws \notin DOMAIN connectionToUser
       THEN /\ sent' = NoneSent
            /\ UNCHANGED <<isRoomClosed, closeTimers, notified>>
       ELSE IF \/ connectionToUser[ws] \notin DOMAIN users
               \/ ~MayCloseRoom(users[connectionToUser[ws]])
       THEN /\ sent' = Send(NoneSent, ws, ErrorFrame("ONLY_HOST_CAN_DO"))
            /\ UNCHANGED <<isRoomClosed, closeTimers, notified>>
       ELSE LET threw == BroadcastThrows(connections, NoConn)
            IN  /\ isRoomClosed' = TRUE
                /\ sent' = Caught(Broadcast(NoneSent, connections,
                                            Frame("closeRoom", "room_closed_by_host"),
                                            NoConn),
                                  ws, threw)
                /\ notified' = notified \cup Reached(connections, NoConn)
                \* the timer is set after the broadcast
                /\ closeTimers' = IF threw THEN closeTimers ELSE closeTimers + 1
    /\ UNCHANGED <<fileName, roomMinProtocolVersion, users, messages, connections,
                   connectionToUser, pendingCleanupAt, limiterVars, storeVars, now, ticks,
                   socket, staleTimers, sinceClose, chatCalls, latest>>

\* a close loop over the registered connections only
SocketsAfterCloseRegistered ==
    [w \in Conns |-> IF w \in DOMAIN connectionToUser /\ socket[w] = "open"
                     THEN "closing" ELSE socket[w]]

\* the sockets closed by the loop `for (const ws of this.connections) ws.close(...)`
SocketsAfterCloseAll ==
    [w \in Conns |-> IF w \in SetOf(connections) /\ socket[w] = "open"
                     THEN "closing" ELSE socket[w]]

\* handleCloseRoom after its timer: close every connection, then clearRoomData
closeRoomResume ==
    /\ closeTimers > 0
    /\ closeTimers' = closeTimers - 1
    \* timers expire in the order they were set
    /\ staleTimers' = closeTimers - 1
    /\ socket' = SocketsAfterCloseAll
    /\ clearRoomData
    /\ sinceClose' = "wiped"
    /\ sent' = NoneSent
    /\ ev' = Event("closeRoomResume", NoConn)
    /\ UNCHANGED <<limiterVars, now, ticks, notified, chatCalls>>

----------------------------------------------------------------------------
(* Frames onMessage does not dispatch *)

\* an onMessage catch that also closes the socket
invalidFrameClosesSocket(ws) ==
    /\ socket[ws] = "open"
    /\ ev' = Event("invalid", ws)
    /\ sent' = Send(NoneSent, ws, ErrorFrame("INVALID_FORMAT"))
    /\ socket' = [socket EXCEPT ![ws] = "closing"]
    /\ UNCHANGED <<roomVars, limiterVars, storeVars, now, ticks, closeTimers, staleTimers,
                   histVars>>

\* JSON.parse throws, or the frame has no type
invalidFrame(ws) ==
    /\ socket[ws] = "open"
    /\ ev' = Event("invalid", ws)
    /\ sent' = Send(NoneSent, ws, ErrorFrame("INVALID_FORMAT"))
    /\ UNCHANGED <<roomVars, limiterVars, storeVars, envVars, histVars>>

\* the switch's default branch
unknownType(ws) ==
    /\ socket[ws] = "open"
    /\ ev' = Event("unknown", ws)
    /\ sent' = NoneSent
    /\ UNCHANGED <<roomVars, limiterVars, storeVars, envVars, histVars>>

----------------------------------------------------------------------------
(* The room's events.  Each takes its inputs from the sets a specification   *)
(* gives it; the guards keep the message log and the request counts bounded. *)

NameOf(userId) == IF userId = "u1" THEN Ann ELSE Bob

UserContent(userId, userName, role, declared, file) ==
    [userId |-> userId, userName |-> userName, role |-> role,
     protocolVersion |-> declared, fileName |-> file]

\* one content without a userName
NamelessContent == UserContent("u1", <<>>, HOST, 0, NoFile)

LogHasRoom(max) == Len(messages) < max
DrawHasRoom(ws, max) ==
    IF ws \notin DOMAIN connectionToUser THEN TRUE
    ELSE IF connectionToUser[ws] \notin DOMAIN drawingLimiter THEN TRUE
    ELSE drawingLimiter[connectionToUser[ws]].count < max
ChatHasRoom(ws, max) ==
    IF ws \notin DOMAIN connectionToUser THEN TRUE
    ELSE IF connectionToUser[ws] \notin DOMAIN chatCalls THEN TRUE
    ELSE chatCalls[connectionToUser[ws]].n < max

Connect == \E ws \in Conns : handleWebSocket(ws)
\* the room's first connection attaches
ConnectFirst == connections = <<>> /\ Connect
ConnectCancelFails == \E ws \in Conns : handleWebSocketCancelFails(ws)
Alarm == alarm
Disconnect(maxLog) == LogHasRoom(maxLog) /\ \E ws \in Conns : onClose(ws)
Create(contents, maxLog) ==
    LogHasRoom(maxLog) /\ \E ws \in Conns, c \in contents : handleCreate(ws, c)
Join(contents, maxLog) ==
    LogHasRoom(maxLog) /\ \E ws \in Conns, c \in contents : handleJoin(ws, c)
UserUpdate(names, maxLog) ==
    LogHasRoom(maxLog) /\ \E ws \in Conns, h \in BOOLEAN, n \in names :
        handleUserUpdate(ws, h, n)
Chat(contents, maxLog, maxCalls) ==
    LogHasRoom(maxLog) /\ \E ws \in Conns, c \in contents :
        ChatHasRoom(ws, maxCalls) /\ handleChat(ws, c)
\* a connection that has no session yet sends its create
Register(contents, maxLog) ==
    LogHasRoom(maxLog) /\ \E ws \in Conns, c \in contents :
        ws \notin DOMAIN connectionToUser /\ handleCreate(ws, c)
UpdateMoveView(has, ids, models, flags, maxDraws) ==
    \E ws \in Conns, h \in has, id \in ids, m \in models, b \in flags :
        DrawHasRoom(ws, maxDraws) /\ handleUpdateMoveView(ws, h, id, m, b)
DeleteMoveView(has, ids, maxDraws) ==
    \E ws \in Conns, h \in has, id \in ids, b \in BOOLEAN :
        DrawHasRoom(ws, maxDraws) /\ handleDeleteMoveView(ws, h, id, b)
UpdateBackground(has, models, flags, maxDraws) ==
    \E ws \in Conns, h \in has, m \in models, b \in flags :
        DrawHasRoom(ws, maxDraws) /\ handleUpdateBackground(ws, h, m, b)
DrawingUpdate(has, ids, actions, models, flags, maxDraws) ==
    \E ws \in Conns, h \in has, id \in ids, a \in actions, m \in models, b \in flags :
        DrawHasRoom(ws, maxDraws) /\ handleDrawingUpdate(ws, h, id, a, m, b)
CloseRoom == closeTimers < MaxTimers /\ \E ws \in Conns : handleCloseRoom(ws)
\* closeRoom frames may follow each other within the 1000 ms of the timer
CloseRoomOverlapping == closeTimers < MaxOverlap /\ \E ws \in Conns : handleCloseRoom(ws)
CloseRoomResume == closeRoomResume
Wait(delta, maxTicks) == ticks < maxTicks /\ Tick(delta)

StorageWriteFails(types, ids, actions, models, flags, maxDraws) ==
    \E ws \in Conns, t \in types, id \in ids, a \in actions, m \in models, b \in flags :
        DrawHasRoom(ws, maxDraws) /\ storageWriteFails(ws, t, id, a, m, b)
InvalidFrame == \E ws \in Conns : invalidFrame(ws)
UnknownType == \E ws \in Conns : unknownType(ws)

----------------------------------------------------------------------------
(* Spec: the session lifecycle.  Clients that declare no protocol version    *)
(* create, join, rename, chat, leave and close the room.                     *)

LegacyContents ==
    {UserContent(u, NameOf(u), r, 0, NoFile) : u \in UserIds, r \in {HOST, EDITOR}}
    \cup {NamelessContent}
LifecycleChats == {<<"h", "i">>, <<"<">>, <<>>}

Next ==
    \/ Connect
    \/ Disconnect(MaxMsgs)
    \/ Create(LegacyContents, MaxMsgs)
    \/ Join(LegacyContents, MaxMsgs)
    \/ UserUpdate({Bob}, MaxMsgs)
    \/ Chat(LifecycleChats, MaxMsgs, MaxChats)
    \/ CloseRoom
    \/ CloseRoomResume

Spec == Init /\ [][Next]_vars

----------------------------------------------------------------------------
(* Claims about the session lifecycle, checked under Spec *)

\* the step just taken handled `op`
Handled(op) == ev'.op = op

\* C1: while closed is true, a join frame from any connection is answered with
\* exactly the ROOM_IS_CLOSED error (and nothing is sent to anyone else), the
\* server closes that connection, and neither the roster nor the
\* connection-to-user map changes.
C1_ClosedRoomRefusesJoin ==
    [][(isRoomClosed /\ Handled("join")) =>
          /\ OnlyError(sent', ev'.ws, "ROOM_IS_CLOSED")
          /\ \A w \in Conns \ {ev'.ws} : sent'[w] = <<>>
          /\ socket[ev'.ws] = "open" /\ socket'[ev'.ws] = "closing"
          /\ users' = users
          /\ connectionToUser' = connectionToUser]_vars

\* a join was just refused in a closed room and its socket closed by the server
C1_Witness ==
    /\ ev.op = "join"
    /\ isRoomClosed
    /\ OnlyError(sent, ev.ws, "ROOM_IS_CLOSED")
    /\ socket[ev.ws] = "closing"
    /\ DOMAIN users # {}

\* C2: once a Host's closeRoom has been accepted, closed stays true until the
\* full wipe, and no join registers a session before a create has succeeded
\* after that wipe.
C2_ClosedUntilWipedAndCreated ==
    [][/\ (isRoomClosed /\ ~Handled("closeRoomResume")) => isRoomClosed'
       /\ ((isRoomClosed \/ sinceClose # "open") /\ Handled("join")) =>
             (users' = users /\ connectionToUser' = connectionToUser)]_vars

\* C3: every connection force-closed by closeRoom's loop has been sent the
\* closeRoom frame before.
C3_NotifiedBeforeForceClose ==
    [][Handled("closeRoomResume") =>
          \A w \in SetOf(connections) :
              (socket[w] = "open" /\ socket'[w] = "closing") => w \in notified]_vars

\* the session a successful create or join just registered on its socket
JustRegistered(op) ==
    /\ ev.op = op
    /\ HasFrame(sent, ev.ws, "userList")
    /\ ev.ws \in DOMAIN connectionToUser

\* what C5 says the create leaves: only the creator in the roster, only the
\* creator's join message in the log
OnlyCreatorPresent ==
    LET creator == connectionToUser'[ev'.ws]
    IN  /\ DOMAIN users' = {creator}
        /\ Len(messages') = 1
        /\ messages'[1] = SystemMessage(users'[creator].userName \o joined_room, now)

\* the step is a create that succeeded
CreateSucceeded ==
    /\ Handled("create")
    /\ ev'.ws \in DOMAIN connectionToUser'
    /\ Len(messages') = Len(messages) + 1

C6_NonHostCreateChangesNothing ==
    [][\A ws \in Conns, c \in LegacyContents :
          (c.role # HOST /\ ~MissingUserInfo(c) /\ handleCreate(ws, c)) =>
             /\ UNCHANGED <<roomVars, storeVars>>
             /\ OnlyError(sent', ws, "ROOM_IS_CLOSED")]_vars

\* the attached connections that hold a session
Registered == DOMAIN connectionToUser \cap SetOf(connections)

\* C12: in every state the roster and the connection-to-user map agree: every
\* userId of the roster is the userId of some attached connection, and the
\* userId of every attached connection is in the roster.
C12_RosterMatchesConnections ==
    /\ \A u \in DOMAIN users : \E w \in Registered : connectionToUser[w] = u
    /\ \A w \in Registered : connectionToUser[w] \in DOMAIN users

\* C13: no two attached connections map to the same userId.
C13_OneConnectionPerUser ==
    \A w1 \in Registered, w2 \in Registered :
        connectionToUser[w1] = connectionToUser[w2] => w1 = w2

\* C23: a closeRoom from a registered connection whose user has a role other
\* than Host gets exactly the ONLY_HOST_CAN_DO error, nothing is sent to any
\* other connection, and closed (false stays false), the sockets, the close
\* timers, the room and the store are unchanged.
C23_OnlyHostClosesRoom ==
    [][\A ws \in Conns :
          (/\ handleCloseRoom(ws)
           /\ ws \in DOMAIN connectionToUser
           /\ connectionToUser[ws] \in DOMAIN users
           /\ users[connectionToUser[ws]].role # HOST) =>
             /\ OnlyError(sent', ws, "ONLY_HOST_CAN_DO")
             /\ \A w \in Conns \ {ws} : sent'[w] = <<>>
             /\ ~isRoomClosed => ~isRoomClosed'
             /\ UNCHANGED <<roomVars, storeVars, socket, closeTimers>>]_vars

\* an editor's closeRoom was just refused in an open room where the host is
\* attached too
C23_Witness ==
    /\ ev.op = "closeRoom"
    /\ OnlyError(sent, ev.ws, "ONLY_HOST_CAN_DO")
    /\ ev.ws \in DOMAIN connectionToUser
    /\ connectionToUser[ev.ws] \in DOMAIN users
    /\ users[connectionToUser[ev.ws]].role = EDITOR
    /\ \E u \in DOMAIN users : users[u].role = HOST
    /\ ~isRoomClosed
    /\ closeTimers = 0
    /\ \A w \in SetOf(connections) : socket[w] = "open"

\* C26: a join with user info and a role other than Host into a room that is
\* not closed and has no users gets exactly the ROOM_IS_CLOSED error and
\* leaves roster, connection map and message log unchanged.
C26_NonHostCannotOpenRoom ==
    [][\A ws \in Conns, c \in LegacyContents :
          (/\ handleJoin(ws, c)
           /\ ~isRoomClosed
           /\ DOMAIN users = {}
           /\ c.role # HOST
           /\ ~MissingUserInfo(c)) =>
             /\ OnlyError(sent', ws, "ROOM_IS_CLOSED")
             /\ \A w \in Conns \ {ws} : sent'[w] = <<>>
             /\ users' = users
             /\ connectionToUser' = connectionToUser
             /\ messages' = messages]_vars

\* a join was just refused in a room that is not closed and that its users
\* have left: the log holds their messages, the socket stays open
C26_Witness ==
    /\ ev.op = "join"
    /\ OnlyError(sent, ev.ws, "ROOM_IS_CLOSED")
    /\ ~isRoomClosed
    /\ DOMAIN users = {}
    /\ socket[ev.ws] = "open"
    /\ ev.ws \notin DOMAIN connectionToUser
    /\ Len(messages) = 2

\* C27: a userId that stays in the roster across a step keeps its role.
C27_RoleFixedAtRegistration ==
    [][\A u \in DOMAIN users \cap DOMAIN users' : users'[u].role = users[u].role]_vars

\* C35: the step in which handleCloseRoom resumes after its timer and wipes
\* the room leaves no socket open, so every connection attached until then,
\* during the timer's delay too, has been closed by the server (or had closed
\* before), and leaves the connection set, the connection map and the roster
\* empty.
C35_WipeClosesEveryConnection ==
    [][closeRoomResume =>
          /\ \A w \in Conns : socket'[w] # "open"
          /\ \A w \in Conns : socket[w] = "open" => socket'[w] = "closing"
          /\ connections' = <<>>
          /\ connectionToUser' = EmptyMap
          /\ users' = EmptyMap]_vars

\* the wipe of a closeRoom has just closed two connections: one that got the
\* closeRoom frame and one that attached after it, during the delay
C35_Witness ==
    /\ ev.op = "closeRoomResume"
    /\ connections = <<>>
    /\ connectionToUser = EmptyMap
    /\ users = EmptyMap
    /\ \E w \in Conns : socket[w] = "closing" /\ w \in notified
    /\ \E w \in Conns : socket[w] = "closing" /\ w \notin notified

\* C36: when a connection closes whose userId is also registered on another
\* connection that is open, the user stays in the roster and no message is
\* appended to the log.
C36_ReconnectSurvivesOldClose ==
    [][\A ws \in Conns :
          (/\ onClose(ws)
           /\ ws \in DOMAIN connectionToUser
           /\ connectionToUser[ws] \in DOMAIN users
           /\ \E w \in SetOf(connections) \ {ws} :
                 /\ socket[w] = "open"
                 /\ w \in DOMAIN connectionToUser
                 /\ connectionToUser[w] = connectionToUser[ws]) =>
             /\ connectionToUser[ws] \in DOMAIN users'
             /\ messages' = messages]_vars

\* C37: in every reachable state whose connection set is empty the roster is
\* empty.
C37_NoSessionWithoutConnection == connections = <<>> => DOMAIN users = {}

\* C38: a step sends a connection that is not registered after it nothing but
\* error frames.
C38_UnregisteredReceivesNothing ==
    [][\A w \in Conns :
          w \notin DOMAIN connectionToUser' =>
             \A i \in 1..Len(sent'[w]) : sent'[w][i].type = "error"]_vars

\* C39: in every reachable state with a non-empty roster
\* roomMinProtocolVersion is set.
C39_RosterImpliesProtocolGate == DOMAIN users # {} => roomMinProtocolVersion # NoVersion

----------------------------------------------------------------------------
(* SpecChat: sessions come, rename, chat and go in a room that is never      *)
(* closed by its host; the log may grow by one more message than in Spec.    *)

NextChat ==
    \/ Connect
    \/ Disconnect(MaxChatLog)
    \/ Create(LegacyContents, MaxChatLog)
    \/ Join(LegacyContents, MaxChatLog)
    \/ UserUpdate({Bob}, MaxChatLog)
    \/ Chat(LifecycleChats, MaxChatLog, MaxChats)

SpecChat == Init /\ [][NextChat]_vars

\* C9: a valid chat frame (non-empty content of at most 1000 characters, within
\* the rate limit) from a registered connection appends exactly one Text
\* message with the sender's current userName and the content as the sanitizer
\* leaves it (plain text unchanged), and every attached connection, the sender
\* included, is sent a chat frame with that message.
C9_ChatAppendsAndReachesAll ==
    [][\A ws \in Conns, c \in LifecycleChats :
          (/\ handleChat(ws, c)
           /\ ws \in DOMAIN connectionToUser
           /\ ~ChatCheck(connectionToUser[ws]).limited
           /\ c # <<>>
           /\ Len(c) <= MaxContentLength) =>
             /\ Len(messages') = Len(messages) + 1
             /\ LET message == messages'[Len(messages')]
                IN  /\ message.messageType = TEXT
                    /\ message.userId = connectionToUser[ws]
                    /\ message.userName = users[connectionToUser[ws]].userName
                    /\ message.content = sanitizeContent(c)
                    /\ c = <<"h", "i">> => message.content = <<"h", "i">>
                    /\ ws \in SetOf(connections)
                    /\ \A w \in SetOf(connections) :
                          /\ Len(sent'[w]) = 1
                          /\ sent'[w][1].type = "chat"
                          /\ sent'[w][1].content = message]_vars

----------------------------------------------------------------------------
(* SpecProto: clients of every declared protocol version create and join.    *)

ProtoContents ==
    {UserContent(u, NameOf(u), r, v, NoFile) :
        u \in UserIds, r \in {HOST, EDITOR}, v \in DeclaredVersions}

NextProto ==
    \/ Connect
    \/ Disconnect(MaxChatLog)
    \/ Create(ProtoContents, MaxChatLog)
    \/ Join(ProtoContents, MaxChatLog)

SpecProto == Init /\ [][NextProto]_vars

\* the version a frame declares; a frame that declares none counts as version 1
DeclaredVersion(c) == IF c.protocolVersion \in 1..MaxVer THEN c.protocolVersion ELSE 1

\* C7: in a room whose creator set minProtocolVersion to m, a join that is not
\* refused for another reason (the room has users or the joiner is Host)
\* and declares a version below m gets exactly the UPGRADE_REQUIRED error, its
\* connection is closed, and roster and log are unchanged; one that declares m
\* or more is registered and gets the snapshot.
C7_ProtocolGate ==
    [][\A ws \in Conns, c \in ProtoContents :
          (/\ handleJoin(ws, c)
           /\ roomMinProtocolVersion # NoVersion
           /\ ~isRoomClosed
           /\ (DOMAIN users # {} \/ c.role = HOST)) =>
             IF DeclaredVersion(c) < roomMinProtocolVersion
             THEN /\ OnlyError(sent', ws, "UPGRADE_REQUIRED")
                  /\ \A w \in Conns \ {ws} : sent'[w] = <<>>
                  /\ socket'[ws] = "closing"
                  /\ users' = users
                  /\ connectionToUser' = connectionToUser
                  /\ messages' = messages
             ELSE /\ ws \in DOMAIN connectionToUser'
                  /\ connectionToUser'[ws] = c.userId
                  /\ c.userId \in DOMAIN users'
                  /\ users'[c.userId].protocolVersion = DeclaredVersion(c)
                  /\ HasFrame(sent', ws, "initSetup")
                  /\ socket'[ws] = "open"]_vars

\* a version-1 join was just refused by a room created at version 2, whose
\* creator is still there
C7_Witness ==
    /\ ev.op = "join"
    /\ roomMinProtocolVersion = 2
    /\ OnlyError(sent, ev.ws, "UPGRADE_REQUIRED")
    /\ socket[ev.ws] = "closing"
    /\ DOMAIN users # {}
    /\ ev.ws \notin DOMAIN connectionToUser

\* the step is a full wipe: handleCloseRoom's clearRoomData, the alarm's
\* clearRoomData in a room without connections, or a create that succeeds
\* while no users are present
FullWipe ==
    \/ Handled("closeRoomResume")
    \/ Handled("alarm") /\ connections = <<>>
    \/ CreateSucceeded /\ DOMAIN users = {}

\* C14: once minProtocolVersion is set, every step that is not a full wipe
\* leaves it as it is, a create processed while users are present included.
C14_MinVersionFixedUntilWipe ==
    [][(roomMinProtocolVersion # NoVersion /\ ~FullWipe) =>
          roomMinProtocolVersion' = roomMinProtocolVersion]_vars

----------------------------------------------------------------------------
(* SpecRate: one user chats from its connections while time passes.          *)

RateContents == {UserContent("u1", Ann, HOST, 0, NoFile)}
RateChats == {<<"h", "i">>}

NextRate ==
    \/ Connect
    \/ Register(RateContents, MaxRateLog)
    \/ Chat(RateChats, MaxRateLog, MaxRateCalls)
    \/ Wait(TickMs, MaxTicks)

SpecRate == Init /\ [][NextRate]_vars

\* C8: chatCalls counts a userId's chat calls in the window that its first call
\* opened and that lasts 5000 ms.  A call that is the 11th or a later one of its
\* window gets exactly the RATE_LIMITED error and appends nothing; the first
\* ten calls of a window, so the first call after the window before has elapsed,
\* are not rate limited, and the valid chat of a user in the roster is appended.
C8_ChatRateLimit ==
    [][\A ws \in Conns, c \in RateChats :
          (handleChat(ws, c) /\ ws \in DOMAIN connectionToUser) =>
             LET userId == connectionToUser[ws]
                 calls == chatCalls'[userId]
             IN  IF calls.n > ChatMaxRequests
                 THEN /\ now - calls.start <= LimiterWindowMs
                      /\ OnlyError(sent', ws, "RATE_LIMITED")
                      /\ messages' = messages
                 ELSE /\ ~OnlyError(sent', ws, "RATE_LIMITED")
                      /\ userId \in DOMAIN users =>
                            /\ Len(messages') = Len(messages) + 1
                            /\ messages'[Len(messages')].messageType = TEXT
                            /\ HasFrame(sent', ws, "chat")]_vars

\* a chat was just accepted as the first call of a new window, after a window
\* in which the user's 11th call had been refused
C8_Witness ==
    /\ ev.op = "chat"
    /\ "u1" \in DOMAIN chatCalls
    /\ chatCalls["u1"].n = 1
    /\ chatCalls["u1"].prev > ChatMaxRequests
    /\ chatCalls["u1"].start > LimiterWindowMs
    /\ HasFrame(sent, ev.ws, "chat")
    /\ messages # <<>>
    /\ messages[Len(messages)].messageType = TEXT
    /\ messages[Len(messages)].timestamp = now

\* C29: for every subject of the chat limiter, the stored count is between 1
\* and the maximum; the record changes only in a chat of that subject; a chat
\* that is refused as rate limited leaves the record as it was; the window
\* start changes only in a chat made more than 5000 ms after it, and that chat
\* is not refused and stores count 1 with the current time; a chat within the
\* window keeps the start and adds at most one to the count.
C29_LimiterWindowIsLazy ==
    [][\A u \in UserIds :
          /\ u \in DOMAIN messageLimiter' =>
                messageLimiter'[u].count \in 1..ChatMaxRequests
          /\ (u \in DOMAIN messageLimiter /\ u \in DOMAIN messageLimiter') =>
                LET old == messageLimiter[u]
                    new == messageLimiter'[u]
                    checked == /\ Handled("chat")
                               /\ ev'.ws \in DOMAIN connectionToUser
                               /\ connectionToUser[ev'.ws] = u
                    denied == checked /\ OnlyError(sent', ev'.ws, "RATE_LIMITED")
                    elapsed == now - old.timestamp > LimiterWindowMs
                IN  /\ new # old => checked
                    /\ denied => new = old
                    /\ (checked /\ elapsed) =>
                          /\ ~denied
                          /\ new = [count |-> 1, timestamp |-> now]
                    /\ new.timestamp # old.timestamp => checked /\ elapsed
                    /\ (checked /\ ~elapsed /\ ~denied) =>
                          /\ new.count = old.count + 1
                          /\ new.timestamp = old.timestamp]_vars

\* a chat was just refused as rate limited some time after its window opened,
\* with the count at the maximum and the window start where it was
C29_Witness ==
    /\ ev.op = "chat"
    /\ OnlyError(sent, ev.ws, "RATE_LIMITED")
    /\ "u1" \in DOMAIN messageLimiter
    /\ messageLimiter["u1"].count = ChatMaxRequests
    /\ messageLimiter["u1"].timestamp < now
    /\ now - messageLimiter["u1"].timestamp <= LimiterWindowMs

----------------------------------------------------------------------------
(* SpecStore: a host and an editor write and delete move-view records, join  *)
(* again, leave, and the host closes the room.                               *)

StoreContents ==
    {UserContent("u1", Ann, HOST, 0, NoFile), UserContent("u2", Bob, EDITOR, 0, NoFile)}

NextStore ==
    \/ Connect
    \/ Disconnect(MaxMsgs)
    \/ Create(StoreContents, MaxMsgs)
    \/ Join(StoreContents, MaxMsgs)
    \/ UpdateMoveView({TRUE}, Ids, Models, {TRUE}, MaxDraws)
    \/ DeleteMoveView({TRUE}, Ids, MaxDraws)
    \/ CloseRoom
    \/ CloseRoomResume

SpecStore == Init /\ [][NextStore]_vars

\* the moveModels of the snapshot the last step sent to its connection
SnapshotMoveModels == sent[ev.ws][1].content.moveModels

\* C10: latest[id] is the model of the last accepted updateMoveView of id since
\* the last full wipe, or NoModel when a deleteMoveView of id was accepted after
\* it or there was none.  The moveModels of a join's snapshot hold exactly one
\* record for each id whose latest model is not NoModel, with that model, and
\* no record for any other id.
C10_SnapshotHoldsLatestMoveViews ==
    (ev.op = "join" /\ HasFrame(sent, ev.ws, "initSetup")) =>
        /\ sent[ev.ws][1].type = "initSetup"
        /\ \A id \in Ids :
              LET records == {i \in 1..Len(SnapshotMoveModels) :
                                SnapshotMoveModels[i].id = id}
              IN  IF latest[id] = NoModel THEN records = {}
                  ELSE /\ Cardinality(records) = 1
                       /\ \A i \in records : SnapshotMoveModels[i].model = latest[id]
        /\ \A i \in 1..Len(SnapshotMoveModels) : SnapshotMoveModels[i].id \in Ids

\* a join just got a snapshot whose only move-view record is "a" with model m2,
\* after the host and the editor each had two move-view commands pass the limiter
C10_Witness ==
    /\ ev.op = "join"
    /\ HasFrame(sent, ev.ws, "initSetup")
    /\ Len(SnapshotMoveModels) = 1
    /\ SnapshotMoveModels[1].id = <<"a">>
    /\ SnapshotMoveModels[1].model = "m2"
    /\ DOMAIN drawingLimiter = {"u1", "u2"}
    /\ \A u \in DOMAIN drawingLimiter : drawingLimiter[u].count = 2

----------------------------------------------------------------------------
(* SpecLive: a version-2 host and a version-1 editor attach, create, join,   *)
(* leave and close the room; a timer that handleCloseRoom has set expires.   *)

LiveContents ==
    {UserContent("u1", Ann, HOST, 2, NoFile), UserContent("u2", Bob, EDITOR, 1, NoFile)}

NextLive ==
    \/ Connect
    \/ Disconnect(MaxMsgs)
    \/ Create(LiveContents, MaxMsgs)
    \/ Join(LiveContents, MaxMsgs)
    \/ CloseRoom
    \/ CloseRoomResume

SpecLive == Init /\ [][NextLive]_vars /\ WF_vars(CloseRoomResume)

\* the room right after handleCloseRoom's close loop and full wipe
ClosedAndWiped ==
    /\ ev.op = "closeRoomResume"
    /\ connections = <<>>
    /\ \A w \in Conns : socket[w] # "open"
    /\ DOMAIN users = {}
    /\ messages = <<>>
    /\ DOMAIN storage = {}

\* C4: once a Host's closeRoom has set closed to true, the room eventually is
\* in the state where every attached connection has been closed and roster,
\* message log and persisted records are empty.
C4_CloseRoomEventuallyWipes ==
    (ev.op = "closeRoom" /\ isRoomClosed) ~> ClosedAndWiped

\* C22: when a Host's closeRoom is accepted, the closeRoom frame that
\* handleCloseRoom broadcasts reaches every member of connections whose socket
\* is open, whatever the state of the other members' sockets, and the handler
\* sees no exception (the sender gets no error frame).
C22_BroadcastToleratesSendFailure ==
    [][\A ws \in Conns :
          (/\ handleCloseRoom(ws)
           /\ ws \in DOMAIN connectionToUser
           /\ connectionToUser[ws] \in DOMAIN users
           /\ MayCloseRoom(users[connectionToUser[ws]])) =>
             /\ \A w \in SetOf(connections) :
                   socket[w] = "open" => HasFrame(sent', w, "closeRoom")
             /\ ~HasFrame(sent', ws, "error")]_vars

----------------------------------------------------------------------------
(* SpecDraw: one host, registered on one connection or on both, writes and   *)
(* deletes move-view, drawing and background records; a connection without a *)
(* session sends the same commands.                                          *)

DrawContents == {UserContent("u1", Ann, HOST, 0, NoFile)}
DrawActions == DrawingActions \cup {"bogus"}

NextDraw ==
    \/ Connect
    \/ Register(DrawContents, MaxMsgs)
    \/ UpdateBackground(BOOLEAN, {"m1"}, BOOLEAN, MaxDrawCalls)
    \/ UpdateMoveView(BOOLEAN, Ids, {"m1"}, BOOLEAN, MaxDrawCalls)
    \/ DeleteMoveView(BOOLEAN, Ids, MaxDrawCalls)
    \/ DrawingUpdate(BOOLEAN, Ids, DrawActions, {"m1"}, BOOLEAN, MaxDrawCalls)
    \/ InvalidFrame
    \/ UnknownType

SpecDraw == Init /\ [][NextDraw]_vars

\* the deleteMoveView of `ws` is refused by the drawing rate limit
DrawRefused(ws) ==
    IF ws \in DOMAIN connectionToUser THEN DrawCheck(connectionToUser[ws]).limited
    ELSE FALSE

\* C11: a deleteMoveView that the drawing rate limit does not refuse leaves no
\* record under its id's key and leaves every other key of the store (the other
\* ids' move-view records, the drawing records, the background) with its value;
\* when the id had no record, no error frame is sent and the whole store is
\* unchanged, so a second deleteMoveView of the id stores what the first did.
C11_DeleteMissingMoveViewIsNoOp ==
    [][\A ws \in Conns, id \in Ids, b \in BOOLEAN :
          (handleDeleteMoveView(ws, TRUE, id, b) /\ ~DrawRefused(ws)) =>
             LET key == StorageKey(moveViewPrefix, id)
             IN  /\ ws \in DOMAIN connectionToUser => key \notin DOMAIN storage'
                 /\ DOMAIN storage' \ {key} = DOMAIN storage \ {key}
                 /\ \A k \in DOMAIN storage \ {key} : storage'[k] = storage[k]
                 /\ key \notin DOMAIN storage =>
                       /\ storage' = storage
                       /\ ~HasFrame(sent', ws, "error")]_vars

\* the host's fourth drawing-class call was a deleteMoveView of "a", forwarded
\* to the other connection: the three calls before it stored the move-view
\* record of "b", a drawing record and the background, so "a" had no record,
\* and all three are still there
C11_Witness ==
    /\ ev.op = "deleteMoveView"
    /\ ev.ws \in DOMAIN connectionToUser
    /\ drawingLimiter[connectionToUser[ev.ws]].count = 4
    /\ DOMAIN storage = {StorageKey(moveViewPrefix, <<"b">>),
                         StorageKey(drawingPrefix, <<"a">>), updateBackgroundKey}
    /\ sent[ev.ws] = <<>>
    /\ \E w \in Conns \ {ev.ws} :
          /\ Len(sent[w]) = 1
          /\ sent[w][1].type = "deleteMoveView"
          /\ sent[w][1].content.id = <<"a">>

\* C17: a step that handles a frame of a recognized command and changes
\* neither the room, nor the request counts, nor the store sends exactly one
\* frame, an error frame, to the connection the frame came from and nothing to
\* any other connection.
C17_NoSilentFailure ==
    [][(/\ ev'.op \in {"create", "updateBackground", "updateMoveView",
                       "deleteMoveView", "drawingUpdate"}
        /\ UNCHANGED <<roomVars, limiterVars, storeVars>>) =>
          /\ Len(sent'[ev'.ws]) = 1
          /\ sent'[ev'.ws][1].type = "error"
          /\ \A w \in Conns \ {ev'.ws} : sent'[w] = <<>>]_vars

\* C24: a frame that cannot be parsed or has no type gets exactly one frame,
\* the INVALID_FORMAT error, on the connection it came from and nothing on any
\* other; a frame of an unrecognized type gets nothing on any connection; both
\* leave the sockets, the room, the request counts and the store unchanged.
C24_MalformedFrameChangesNothing ==
    [][/\ Handled("invalid") =>
             /\ OnlyError(sent', ev'.ws, "INVALID_FORMAT")
             /\ \A w \in Conns \ {ev'.ws} : sent'[w] = <<>>
             /\ socket'[ev'.ws] = "open"
       /\ Handled("unknown") => sent' = NoneSent
       /\ (Handled("invalid") \/ Handled("unknown")) =>
             /\ UNCHANGED <<roomVars, limiterVars, storeVars, socket, closeTimers>>]_vars

\* a registered connection of a room with records in the store has just been
\* answered INVALID_FORMAT and is still open
C24_Witness ==
    /\ ev.op = "invalid"
    /\ OnlyError(sent, ev.ws, "INVALID_FORMAT")
    /\ socket[ev.ws] = "open"
    /\ ev.ws \in Registered
    /\ \E w \in SetOf(connections) \ {ev.ws} : socket[w] = "open"
    /\ DOMAIN storage # {}
    /\ messages # <<>>

\* C30: updateBackground, updateMoveView and drawingUpdate frames that have a
\* content, come from a registered connection, are not refused by the drawing
\* rate limit and (drawingUpdate) name a known action: every other member of
\* connections gets exactly one frame, of the command's type and with the
\* inbound content, when the broadcast flag is true and nothing when it is
\* false; the sender gets nothing; the store holds the write in both cases.
C30_ForwardedIffBroadcastFlag ==
    [][\A ws \in Conns, b \in BOOLEAN, id \in Ids, a \in DrawingActions :
          LET accepted == ws \in DOMAIN connectionToUser /\ ~DrawRefused(ws)
              Forwarded(frame) ==
                  \A w \in Conns :
                     sent'[w] = IF b /\ w # ws /\ w \in SetOf(connections)
                                THEN <<frame>> ELSE <<>>
          IN  /\ (accepted /\ handleUpdateBackground(ws, TRUE, "m1", b)) =>
                    /\ Forwarded(Frame("updateBackground", [model |-> "m1"]))
                    /\ storage' = MapSet(storage, updateBackgroundKey, [model |-> "m1"])
              /\ (accepted /\ handleUpdateMoveView(ws, TRUE, id, "m1", b)) =>
                    /\ Forwarded(Frame("updateMoveView", [id |-> id, model |-> "m1"]))
                    /\ storage' = StorageAfterUpdateMoveView(id, "m1")
              /\ (accepted /\ handleDrawingUpdate(ws, TRUE, id, a, "m1", b)) =>
                    /\ Forwarded(Frame("drawingUpdate",
                                       [id |-> id, action |-> a, model |-> "m1"]))
                    /\ storage' = StorageAfterDrawingUpdate(id, a, "m1")]_vars

\* a drawingUpdate with the broadcast flag was just forwarded to the other
\* connection, content unchanged, and written; its sender got nothing
C30_Witness ==
    /\ ev.op = "drawingUpdate"
    /\ sent[ev.ws] = <<>>
    /\ \E w \in SetOf(connections) \ {ev.ws} :
          sent[w] = <<Frame("drawingUpdate",
                            [id |-> <<"a">>, action |-> "addStrokes", model |-> "m1"])>>
    /\ StorageKey(drawingPrefix, <<"a">>) \in DOMAIN storage
    /\ storage[StorageKey(drawingPrefix, <<"a">>)].model = "m1"

\* C31: a deleteMoveView frame that has a content, comes from a registered
\* connection and is not refused by the drawing rate limit: whatever its
\* broadcast flag, every other member of connections gets exactly one frame,
\* deleteMoveView with the id, and the sender gets nothing.
C31_DeleteMoveViewAlwaysForwarded ==
    [][\A ws \in Conns, id \in Ids, b \in BOOLEAN :
          (/\ handleDeleteMoveView(ws, TRUE, id, b)
           /\ ws \in DOMAIN connectionToUser
           /\ ~DrawRefused(ws)) =>
             \A w \in Conns :
                sent'[w] = IF w # ws /\ w \in SetOf(connections)
                           THEN <<Frame("deleteMoveView", [id |-> id])>> ELSE <<>>]_vars

\* a deleteMoveView of "b", whose record was in the store, was just forwarded
\* to the other connection and not to its sender
C31_Witness ==
    /\ ev.op = "deleteMoveView"
    /\ ev.ws \in DOMAIN connectionToUser
    /\ connectionToUser[ev.ws] \in DOMAIN drawingLimiter
    /\ sent[ev.ws] = <<>>
    /\ \E w \in SetOf(connections) \ {ev.ws} :
          sent[w] = <<Frame("deleteMoveView", [id |-> <<"b">>])>>
    /\ DOMAIN storage = {StorageKey(moveViewPrefix, <<"a">>)}
    /\ latest[<<"a">>] # NoModel
    /\ latest[<<"b">>] = NoModel
    /\ drawingLimiter[connectionToUser[ev.ws]].count = 3

\* C32: a drawingUpdate frame that has a content, comes from a registered
\* connection and is not refused by the drawing rate limit.  With clearStrokes
\* the store loses exactly its records under the drawing_ prefix; with
\* addStrokes, moveStrokes or removeStrokes the record drawing_{id} holds the
\* frame's id and model and every other key keeps its value; with an action
\* that is none of the four the store is unchanged, no other connection gets
\* anything and the sender gets exactly one frame, an error.
C32_DrawingUpdateTouchesOwnRecords ==
    [][\A ws \in Conns, id \in Ids, a \in DrawActions, b \in BOOLEAN :
          (/\ handleDrawingUpdate(ws, TRUE, id, a, "m1", b)
           /\ ws \in DOMAIN connectionToUser
           /\ ~DrawRefused(ws)) =>
             LET key == StorageKey(drawingPrefix, id)
             IN  IF a = "clearStrokes"
                 THEN /\ DOMAIN storage' =
                            {k \in DOMAIN storage : ~StartsWith(k, drawingPrefix)}
                      /\ \A k \in DOMAIN storage' : storage'[k] = storage[k]
                 ELSE IF a \in {"addStrokes", "moveStrokes", "removeStrokes"}
                 THEN /\ DOMAIN storage' = DOMAIN storage \cup {key}
                      /\ storage'[key].id = id
                      /\ storage'[key].model = "m1"
                      /\ storage'[key].timestamp = now
                      /\ \A k \in DOMAIN storage \ {key} : storage'[k] = storage[k]
                 ELSE /\ storage' = storage
                      /\ Len(sent'[ws]) = 1
                      /\ sent'[ws][1].type = "error"
                      /\ \A w \in Conns \ {ws} : sent'[w] = <<>>]_vars

\* the host's fourth drawing-class call was a drawingUpdate of "b" that wrote
\* drawing_b next to the records the three calls before it had stored
C32_Witness ==
    /\ ev.op = "drawingUpdate"
    /\ ev.ws \in DOMAIN connectionToUser
    /\ connectionToUser[ev.ws] \in DOMAIN drawingLimiter
    /\ drawingLimiter[connectionToUser[ev.ws]].count = 4
    /\ DOMAIN storage = {StorageKey(drawingPrefix, <<"a">>),
                         StorageKey(drawingPrefix, <<"b">>),
                         StorageKey(moveViewPrefix, <<"a">>), updateBackgroundKey}
    /\ \E w \in SetOf(connections) \ {ev.ws} :
          /\ Len(sent[w]) = 1
          /\ sent[w][1].type = "drawingUpdate"
          /\ sent[w][1].content.id = <<"b">>
          /\ sent[w][1].content.action = "removeStrokes"

----------------------------------------------------------------------------
(* SpecIdle: a version-2 host and a version-1 editor attach, create, join    *)
(* leave and close the room; the cleanup wake is scheduled, cancelled (the   *)
(* cancel may fail) and delivered while time passes.                         *)

NextIdle ==
    \/ Connect
    \/ ConnectCancelFails
    \/ Disconnect(MaxMsgs)
    \/ Create(LiveContents, MaxMsgs)
    \/ Join(LiveContents, MaxMsgs)
    \/ CloseRoom
    \/ CloseRoomResume
    \/ Wait(IdleTickMs, MaxIdleTicks)
    \/ Alarm

SpecIdle ==
    /\ Init /\ [][NextIdle]_vars
    /\ WF_vars(Wait(IdleTickMs, MaxIdleTicks)) /\ WF_vars(Alarm) /\ WF_vars(CloseRoomResume)

\* no WebSocket is attached: each handle is unused or has had its close event
NoneAttached == \A w \in Conns : socket[w] \notin {"open", "closing"}

\* roster, message log, minProtocolVersion, fileName and persisted records are reset
Wiped ==
    /\ users = EmptyMap
    /\ messages = <<>>
    /\ roomMinProtocolVersion = NoVersion
    /\ fileName = NoFile
    /\ storage = EmptyMap

\* C18: a step that attaches a connection leaves pendingCleanupAt null, and
\* when a wake was pending and the store takes the cancel, no wake is left in
\* the store; a close event after which no connection is attached leaves the
\* connection set empty and a wake pending: at now + 3 minutes, in the store
\* too, when none was pending, and the pending one otherwise.
C18_WakeCancelledOnAttachArmedOnLastDetach ==
    [][/\ Handled("connect") => pendingCleanupAt' = NoTime
       /\ \A ws \in Conns :
             (handleWebSocket(ws) /\ pendingCleanupAt # NoTime) => storageAlarm' = NoTime
       /\ (Handled("close") /\ NoneAttached') =>
             /\ connections' = <<>>
             /\ IF pendingCleanupAt = NoTime
                THEN /\ pendingCleanupAt' = now + EMPTY_ROOM_CLEANUP_DELAY_MS
                     /\ storageAlarm' = now + EMPTY_ROOM_CLEANUP_DELAY_MS
                ELSE pendingCleanupAt' = pendingCleanupAt]_vars

\* C19: when the alarm fires, pendingCleanupAt becomes null; with no connection
\* in the connection set the room is fully wiped; with at least one, roster,
\* message log, minProtocolVersion, fileName, persisted records and the
\* connections are unchanged.
C19_AlarmWipesOnlyEmptyRoom ==
    [][Handled("alarm") =>
          /\ pendingCleanupAt' = NoTime
          /\ IF connections = <<>>
             THEN Wiped' /\ connections' = <<>> /\ connectionToUser' = EmptyMap
             ELSE UNCHANGED <<users, messages, roomMinProtocolVersion, fileName, storage,
                              connections, connectionToUser, isRoomClosed>>]_vars

\* the alarm just fired in a room whose host had re-attached and created again
\* while the cancel of the wake had failed: host and log are still there
C19_Witness ==
    /\ ev.op = "alarm"
    /\ connections # <<>>
    /\ pendingCleanupAt = NoTime
    /\ DOMAIN users # {}
    /\ Len(messages) = 3
    /\ roomMinProtocolVersion = 2

\* C20: when a close event leaves no connection attached (and the clock can
\* still run for 3 minutes), the room eventually is fully wiped, unless a
\* connection attaches.
C20_IdleRoomEventuallyWiped ==
    (ev.op = "close" /\ NoneAttached /\ ticks + 2 <= MaxIdleTicks)
        ~> (Wiped \/ ev.op = "connect")

\* C15: across every step the previous message log is a prefix of the next
\* one, or the step is a full wipe and the next log is empty.
C15_LogAppendOnlyUntilWipe ==
    [][\/ /\ Len(messages) <= Len(messages')
          /\ SubSeq(messages', 1, Len(messages)) = messages
       \/ FullWipe /\ messages' = <<>>]_vars

\* the alarm has just wiped a room whose log had held the host's join message:
\* the server closed a socket at a refused join, and no host close has wiped
\* the room since its last create
C15_Witness ==
    /\ ev.op = "alarm"
    /\ messages = <<>>
    /\ connections = <<>>
    /\ sinceClose = "open"
    /\ \E w \in Conns : socket[w] = "closed"

\* C28: in every reachable state, pendingCleanupAt is set only while the
\* connection set is empty.
C28_PendingOnlyWhileEmpty == pendingCleanupAt # NoTime => connections = <<>>

\* the last connection of a room with a message log has just detached and the
\* cleanup is scheduled
C28_Witness ==
    /\ ev.op = "close"
    /\ pendingCleanupAt = now + EMPTY_ROOM_CLEANUP_DELAY_MS
    /\ storageAlarm = pendingCleanupAt
    /\ connections = <<>>
    /\ messages # <<>>

----------------------------------------------------------------------------
(* SpecFresh: a host who names a file or none and an editor attach, create,  *)
(* join, store move-view and background records and leave.                   *)

FreshContents ==
    {UserContent("u1", Ann, HOST, 0, f) : f \in FileNames}
    \cup {UserContent("u2", Bob, EDITOR, 0, NoFile)}

NextFresh ==
    \/ Connect
    \/ Disconnect(MaxMsgs)
    \/ Create(FreshContents, MaxMsgs)
    \/ Join(FreshContents, MaxMsgs)
    \/ UpdateMoveView({TRUE}, {<<"a">>}, {"m1"}, {TRUE}, MaxDraws)
    \/ UpdateBackground({TRUE}, {"m1"}, {TRUE}, MaxDraws)

SpecFresh == Init /\ [][NextFresh]_vars

\* C16: a Host create processed while no users are present leaves the log with
\* only the join message of this create, fileName as this create supplies it
\* (null when it supplies none) and no persisted record; a Host create
\* processed while users are present keeps every roster entry of another
\* userId, the log as a prefix of the new log, and the persisted records.
C16_FreshCreateWipesReconnectKeeps ==
    [][\A ws \in Conns, c \in FreshContents :
          (c.role = HOST /\ handleCreate(ws, c)) =>
             IF DOMAIN users = {}
             THEN /\ messages' = <<JoinedMessage(c)>>
                  /\ fileName' = c.fileName
                  /\ storage' = EmptyMap
             ELSE /\ \A u \in DOMAIN users \ {c.userId} :
                        u \in DOMAIN users' /\ users'[u] = users[u]
                  /\ c.userId \in DOMAIN users'
                  /\ Len(messages) <= Len(messages')
                  /\ SubSeq(messages', 1, Len(messages)) = messages
                  /\ storage' = storage]_vars

----------------------------------------------------------------------------
(* SpecWrite: one host on one connection or on both writes and deletes       *)
(* move-view, drawing and background records and chats; the store may reject *)
(* a put or a delete.                                                        *)

WriteTypes == {"updateBackground", "updateMoveView", "deleteMoveView", "drawingUpdate"}

NextWrite ==
    \/ Connect
    \/ Register(DrawContents, MaxMsgs)
    \/ UpdateBackground({TRUE}, {"m1"}, BOOLEAN, MaxDrawCalls)
    \/ UpdateMoveView({TRUE}, {<<"a">>}, {"m1"}, BOOLEAN, MaxDrawCalls)
    \/ DeleteMoveView({TRUE}, {<<"a">>}, MaxDrawCalls)
    \/ DrawingUpdate({TRUE}, {<<"a">>}, {"addStrokes", "clearStrokes"}, {"m1"}, BOOLEAN,
                     MaxDrawCalls)
    \/ StorageWriteFails(WriteTypes, {<<"a">>}, {"addStrokes", "clearStrokes"}, {"m1"},
                         BOOLEAN, MaxDrawCalls)
    \/ Chat(RateChats, MaxMsgs, MaxChats)

SpecWrite == Init /\ [][NextWrite]_vars

\* C21: a step that sends a peer the forwarded frame of updateBackground,
\* updateMoveView, deleteMoveView or drawingUpdate is a step in which the store
\* has acknowledged the command's write: after it the store holds the frame's
\* record (put) or holds no record under the deleted key or prefix (delete).
C21_ForwardedAfterWriteAcknowledged ==
    [][\A w \in Conns : \A i \in 1..Len(sent'[w]) :
          LET frame == sent'[w][i]
          IN  /\ frame.type = "updateBackground" =>
                    /\ updateBackgroundKey \in DOMAIN storage'
                    /\ storage'[updateBackgroundKey] = frame.content
              /\ frame.type = "updateMoveView" =>
                    /\ StorageKey(moveViewPrefix, frame.content.id) \in DOMAIN storage'
                    /\ storage'[StorageKey(moveViewPrefix, frame.content.id)].model
                          = frame.content.model
              /\ frame.type = "deleteMoveView" =>
                    StorageKey(moveViewPrefix, frame.content.id) \notin DOMAIN storage'
              /\ frame.type = "drawingUpdate" =>
                    IF frame.content.action = "clearStrokes"
                    THEN \A k \in DOMAIN storage' : ~StartsWith(k, drawingPrefix)
                    ELSE /\ StorageKey(drawingPrefix, frame.content.id) \in DOMAIN storage'
                         /\ storage'[StorageKey(drawingPrefix, frame.content.id)].model
                               = frame.content.model]_vars

\* C25: when the put of an updateBackground or an updateMoveView frame with the
\* broadcast flag fails, every other member of connections still gets the
\* forwarded frame.
C25_WriteFailureDoesNotBlockBroadcast ==
    [][\A ws \in Conns, t \in {"updateBackground", "updateMoveView"} :
          storageWriteFails(ws, t, <<"a">>, "addStrokes", "m1", TRUE) =>
             \A w \in SetOf(connections) \ {ws} : HasFrame(sent', w, t)]_vars

----------------------------------------------------------------------------
(* SpecEscape: one user sends chats whose content is any string of up to     *)
(* MaxEscapeLen characters over the five characters the sanitizer replaces   *)
(* and a letter.                                                             *)

EscapeInputs ==
    UNION {[1..n -> {"<", ">", "&", "\"", "'", "a"}] : n \in 1..MaxEscapeLen}

NextEscape ==
    \/ Connect
    \/ Register(RateContents, MaxMsgs)
    \/ Chat(EscapeInputs, MaxMsgs, MaxChats)

SpecEscape == Init /\ [][NextEscape]_vars

\* C33: the content stored for an accepted chat is the HTML escape of the
\* frame's content: each of < > & " ' is replaced by its entity, once, and
\* every other character is kept.
C33_SanitizerIsHtmlEscape ==
    [][\A ws \in Conns, c \in EscapeInputs :
          (/\ handleChat(ws, c)
           /\ ws \in DOMAIN connectionToUser
           /\ connectionToUser[ws] \in DOMAIN users
           /\ ~ChatCheck(connectionToUser[ws]).limited) =>
             LET entity(ch) ==
                     IF ch = "<" THEN <<"&", "l", "t", ";">>
                     ELSE IF ch = ">" THEN <<"&", "g", "t", ";">>
                     ELSE IF ch = "&" THEN <<"&", "a", "m", "p", ";">>
                     ELSE IF ch = "\"" THEN <<"&", "q", "u", "o", "t", ";">>
                     ELSE IF ch = "'" THEN <<"&", "#", "0", "3", "9", ";">>
                     ELSE <<ch>>
                 escaped[i \in 0..Len(c)] ==
                     IF i = 0 THEN <<>> ELSE escaped[i - 1] \o entity(c[i])
             IN  /\ Len(messages') = Len(messages) + 1
                 /\ messages'[Len(messages')].content = escaped[Len(c)]]_vars

----------------------------------------------------------------------------
(* SpecOverlap: hosts attach, create, leave and send closeRoom frames, up to *)
(* MaxOverlap of them waiting on their timer at a time.                      *)

NextOverlap ==
    \/ Connect
    \/ Disconnect(MaxMsgs)
    \/ Register(DrawContents, MaxMsgs)
    \/ CloseRoomOverlapping
    \/ CloseRoomResume

SpecOverlap == Init /\ [][NextOverlap]_vars

\* C34: when handleCloseRoom resumes on a timer set before the last wipe, and
\* a create has registered a session since that wipe, the step closes no
\* socket and leaves the connection set, the roster, the message log and the
\* persisted records as they are.
C34_ResumedCloseSparesNewSession ==
    [][(/\ closeRoomResume
        /\ staleTimers > 0
        /\ sinceClose = "open"
        /\ DOMAIN users # {}) =>
          /\ socket' = socket
          /\ connections' = connections
          /\ users' = users
          /\ messages' = messages
          /\ storage' = storage]_vars

----------------------------------------------------------------------------
(* SpecBurst: one user chats on one connection while time passes, with a log *)
(* long enough for two full windows of accepted chats.                       *)

NextBurst ==
    \/ ConnectFirst
    \/ Register(RateContents, MaxBurstLog)
    \/ Chat(RateChats, MaxBurstLog, MaxRateCalls)
    \/ Wait(TickMs, MaxTicks)

SpecBurst == Init /\ [][NextBurst]_vars

\* C40: the Text messages of the log are the chat checks the limiter allowed,
\* each with the time of its check.  Starting at any of them, the interval of
\* 5000 ms holds at most 20 of them, and more than 10 only when two of them
\* belong to different windows of the limiter; the window of the last one is
\* the window the limiter stores.
C40_BurstAtMostTwiceTheMaximum ==
    LET allowed == SelectSeq(messages, LAMBDA m : m.messageType = TEXT)
        at(k) == allowed[k].timestamp
        start[k \in 1..Len(allowed)] ==
            IF k = 1 THEN at(1)
            ELSE IF at(k) - start[k - 1] > LimiterWindowMs THEN at(k)
            ELSE start[k - 1]
        within(i) == {k \in 1..Len(allowed) :
                         at(k) >= at(i) /\ at(k) <= at(i) + LimiterWindowMs}
    IN  /\ \A i \in 1..Len(allowed) :
              /\ Cardinality(within(i)) <= 2 * ChatMaxRequests
              /\ Cardinality(within(i)) > ChatMaxRequests =>
                    \E j, k \in within(i) : start[j] # start[k]
        /\ allowed # <<>> =>
              /\ "u1" \in DOMAIN messageLimiter
              /\ messageLimiter["u1"].timestamp = start[Len(allowed)]

\* 19 chats were allowed within 5000 ms: 9 at the end of one window and 10 at
\* the start of the next
C40_Witness ==
    LET allowed == SelectSeq(messages, LAMBDA m : m.messageType = TEXT)
    IN  /\ Len(allowed) = 2 * ChatMaxRequests
        /\ allowed[2].timestamp = allowed[1].timestamp + LimiterWindowMs
        /\ allowed[ChatMaxRequests].timestamp = allowed[2].timestamp
        /\ allowed[ChatMaxRequests + 1].timestamp = allowed[2].timestamp + TickMs
        /\ allowed[2 * ChatMaxRequests].timestamp = allowed[2].timestamp + TickMs
        /\ messageLimiter["u1"] =
              [count |-> ChatMaxRequests, timestamp |-> allowed[2].timestamp + TickMs]
====
